---- MODULE Spec2Model ----
(***************************************************************************)
(* A model of src/src/analyzer/market_analyzer.py (class MarketAnalyzer):  *)
(* the hour-bucketed result cache and analyze_security, the technical      *)
(* indicator engine, the news sentiment classifier and the price/news      *)
(* correlation engine.                                                     *)
(*                                                                         *)
(* Numbers are exact: a price is an integer, an average is kept as the     *)
(* integer sum over its window, a float NaN or infinity is a tagged        *)
(* record.  Float rounding is not modelled.                                *)
(***************************************************************************)
EXTENDS Integers, Sequences, FiniteSets, TLC

VARIABLES
    now,          \* datetime.now(), in ticks
    data_cache,   \* self.data_cache: cache_key -> (cache_time, cached_data)
    pc,           \* position of each caller inside analyze_security
    call,         \* the ticker and cache_key of each caller's running call
    ret,          \* the value the caller's last analyze_security returned
    succeeded,    \* per ticker and hour of the call: the result last stored
    calls,        \* number of analyze_security calls started
    lastGet,      \* the last _get_from_cache: key, entry seen, time, value
    price_data,   \* _get_technical_analysis: the data dict of its argument
    raises,       \* the indicator blocks in which an exception is raised
    analysis,     \* the value _get_technical_analysis returned
    news_items,   \* analyze_news_impact: its argument
    news_analysis, \* the value analyze_news_impact returned
    security_data, \* compute_price_news_correlation: its first argument
    correlation,  \* the call of compute_price_news_correlation and its value
    price_summary, \* the call of _generate_price_summary and its value
    explanation   \* the call of generate_explanation and its value

cacheVars == <<now, data_cache, pc, call, ret, succeeded, calls, lastGet>>
taVars == <<price_data, raises, analysis>>

newsVars == <<news_items, news_analysis>>

corrVars == <<security_data, correlation>>

narrVars == <<price_summary, explanation>>

vars == <<cacheVars, taVars, newsVars, corrVars, narrVars>>

\* what the cache and analyze_security leave alone
NotCache == <<taVars, newsVars, corrVars, narrVars>>

(***************************************************************************)
(* Bounds of the model.                                                    *)
(***************************************************************************)
TicksPerHour == 2
MaxClock == 2
MaxCalls == 2

(***************************************************************************)
(* The cache (lines 46-70).                                                *)
(***************************************************************************)
None == [tag |-> "None"]

\* an exception on its way out of a call
Raised(message) == [raised |-> message]

IsRaised(v) == "raised" \in DOMAIN v

\* try: v, with no except clause: the exception goes on to the caller
Try_propagate(v, handled) == v

\* try: v except Exception: handled
Try(v, handled) == IF IsRaised(v) THEN handled ELSE v

\* timedelta(hours=1)
cache_expiry == TicksPerHour

\* datetime.now().strftime('%Y%m%d_%H'): the date and hour of a time
HourBucket(t) == t \div TicksPerHour

\* a cache_time is a datetime, or a string that strptime parses or rejects
DateTime(t) == [kind |-> "datetime", t |-> t]

\* a parser that accepts any string, as the start of the clock
strptime_lenient(ct) == DateTime(0)

\* datetime.strptime(cache_time, '%Y-%m-%d %H:%M:%S'); "ValueError" when
\* the string does not have that format
strptime(ct) == IF ct.kind = "str" THEN DateTime(ct.t) ELSE [kind |-> "ValueError"]

_get_from_cache_le(cache, cache_key, t) ==
    IF cache_key \in DOMAIN cache
    THEN LET entry == cache[cache_key]
             cache_time == IF entry.cache_time.kind = "datetime"
                           THEN entry.cache_time
                           ELSE strptime(entry.cache_time)
         IN  IF cache_time.kind = "ValueError"
             THEN None
             ELSE IF t - cache_time.t <= cache_expiry
                  THEN entry.cached_data
                  ELSE None
    ELSE None

_get_from_cache(cache, cache_key, t) ==
    IF cache_key \in DOMAIN cache
    THEN LET entry == cache[cache_key]
             cache_time == IF entry.cache_time.kind = "datetime"
                           THEN entry.cache_time
                           ELSE strptime(entry.cache_time)
         IN  IF cache_time.kind = "ValueError"
             THEN None
             ELSE IF t - cache_time.t < cache_expiry
                  THEN entry.cached_data
                  ELSE None
    ELSE None

\* a store that keeps the entry a key already has
_store_in_cache_keep(cache, cache_key, data, t) ==
    IF cache_key \in DOMAIN cache
    THEN cache
    ELSE [k \in DOMAIN cache \cup {cache_key} |->
             IF k = cache_key
             THEN [cache_time |-> DateTime(t), cached_data |-> data]
             ELSE cache[k]]

\* self.data_cache[cache_key] = (datetime.now(), data)
_store_in_cache(cache, cache_key, data, t) ==
    [k \in DOMAIN cache \cup {cache_key} |->
        IF k = cache_key
        THEN [cache_time |-> DateTime(t), cached_data |-> data]
        ELSE cache[k]]

(***************************************************************************)
(* Cache keys: f"{symbol}_{kind}_{datetime.now().strftime('%Y%m%d_%H')}".  *)
(***************************************************************************)
CacheKeyMinute(symbol, kind, t) == [sym |-> symbol, kind |-> kind, bucket |-> t]

\* a key without the hour: f"{symbol}_{kind}"
CacheKey_noHour(symbol, kind, t) == [sym |-> symbol, kind |-> kind, bucket |-> 0]

CacheKey(symbol, kind, t) == [sym |-> symbol, kind |-> kind, bucket |-> HourBucket(t)]


Tickers == {"AAPL", "MSFT"}
Callers == {1, 2}

\* keys used by direct _store_in_cache / _get_from_cache calls
RawKeys == {[sym |-> s, kind |-> "raw", bucket |-> 0] : s \in {"k1", "k2"}}
RawValues == {[tag |-> "raw", v |-> "a"], [tag |-> "raw", v |-> "b"]}

\* the model's share of self.market_indicators and self.sector_etfs
market_indicators == <<"^GSPC">>
sector_etfs == <<"XLK">>

\* info.get('sector') of each ticker's security.info; "None" when absent
SectorOf == [ticker \in Tickers |-> IF ticker = "AAPL" THEN "Technology" ELSE "None"]

\* what an upstream yfinance call can do
Outcomes == {"ok", "empty", "raise"}

(***************************************************************************)
(* One symbol of _get_market_context (lines 1070-1097) or of               *)
(* _get_sector_context (lines 1152-1175): a cached value is used, else the *)
(* symbol is fetched and the result stored only if the data is not empty.  *)
(***************************************************************************)
ContextLookup(cache, symbol, kind, t, outcome) ==
    LET cache_key == CacheKey(symbol, kind, t)
    IN  IF _get_from_cache(cache, cache_key, t) # None
        THEN cache
        ELSE IF outcome = "ok"
             THEN _store_in_cache(cache, cache_key, [tag |-> "ctx", sym |-> symbol], t)
             ELSE cache

RECURSIVE ContextLoop(_, _, _, _, _)
ContextLoop(cache, symbols, kind, t, outcome) ==
    IF symbols = <<>>
    THEN cache
    ELSE ContextLoop(ContextLookup(cache, Head(symbols), kind, t, outcome[Head(symbols)]),
                     Tail(symbols), kind, t, outcome)

\* the cache after _get_market_context()
_get_market_context(cache, t, outcome) ==
    ContextLoop(cache, market_indicators, "market", t, outcome)

\* the cache after _get_sector_context(sector); no lookup without a sector
_get_sector_context(cache, sector, t, outcome) ==
    IF sector = "None"
    THEN cache
    ELSE ContextLoop(cache, sector_etfs, "sector", t, outcome)

\* _create_empty_security_data(ticker, error_message)
_create_empty_security_data(ticker, error_message) ==
    [tag |-> "empty", ticker |-> ticker, error |-> error_message, success |-> FALSE]

\* analyze_security with a store on every return path
Leave_always(cache, cache_key, returned, t) == _store_in_cache(cache, cache_key, returned, t)

\* the cache as a return of analyze_security leaves it: the result of line
\* 140 was stored at line 135; the empty structure of lines 93, 96 and 145
\* is returned with no store
Leave(cache, cache_key, returned, t) ==
    IF returned.tag = "result"
    THEN _store_in_cache(cache, cache_key, returned, t)
    ELSE cache

SymbolOutcomes(symbols) == [{symbols[i] : i \in 1..Len(symbols)} -> Outcomes]

\* a caller that is not inside analyze_security
NoCall == [ticker |-> "", cache_key |-> CacheKey("", "security", 0),
           started |-> 0, prior |-> {}, retry |-> FALSE, fetched |-> FALSE]

(***************************************************************************)
(* analyze_security(ticker), lines 72-145, as the steps of one caller.     *)
(* call[c] keeps the ticker and the cache_key of line 75 and, for the      *)
(* properties, when the call started, the result that a successful call    *)
(* of the same ticker and hour had stored by then, whether a call of the   *)
(* same ticker and hour had returned the empty structure by then, and      *)
(* whether this call went upstream.  A caller that has returned is "idle" again; call[c] and *)
(* ret[c] then describe its last call until it starts the next.            *)
(***************************************************************************)

\* lines 75-81: build the key, look it up, return the cached value on a hit
AS_Lookup(c, ticker) ==
    /\ pc[c] = "idle"
    /\ calls < MaxCalls
    /\ calls' = calls + 1
    /\ LET cache_key == CacheKey(ticker, "security", now)
           cached_data == _get_from_cache(data_cache, cache_key, now)
       IN  /\ call' = [call EXCEPT ![c] =
                         [ticker |-> ticker, cache_key |-> cache_key, started |-> now,
                          prior |-> succeeded[ticker][HourBucket(now)],
                          retry |-> \E d \in Callers :
                                       /\ pc[d] = "idle"
                                       /\ ret[d].tag = "empty"
                                       /\ call[d].ticker = ticker
                                       /\ HourBucket(call[d].started) = HourBucket(now),
                          fetched |-> FALSE]]
           /\ IF cached_data # None
              THEN /\ ret' = [ret EXCEPT ![c] = cached_data]
                   /\ pc' = [pc EXCEPT ![c] = "idle"]
              ELSE /\ ret' = [ret EXCEPT ![c] = None]
                   /\ pc' = [pc EXCEPT ![c] = "fetch"]
    /\ UNCHANGED <<now, data_cache, succeeded, lastGet, NotCache>>

\* lines 86-145, after a miss.  yf.Ticker(ticker).history(period='1d'): an
\* empty history or an exception returns the empty structure, which reads
\* the market context.  Otherwise info, historical data, statistics, sector
\* and market context and technical analysis are computed, and the result
\* is stored under the key built at line 75 and returned.  An exception in
\* a helper is caught at line 142 and returns the empty structure instead,
\* without a store.
AS_Fetch(c) ==
    /\ pc[c] = "fetch"
    /\ \E hist_test \in Outcomes, info \in {"ok", "raise"},
          sec \in SymbolOutcomes(sector_etfs),
          mkt \in SymbolOutcomes(market_indicators),
          raised \in BOOLEAN :
          LET ticker == call[c].ticker
              the_sector == IF info = "ok" THEN SectorOf[ticker] ELSE "None"
              c1 == _get_sector_context(data_cache, the_sector, now, sec)
              c2 == _get_market_context(c1, now, mkt)
              result == [tag |-> "result", ticker |-> ticker, fetched_at |-> now]
          IN  /\ call' = [call EXCEPT ![c].fetched = TRUE]
              /\ IF hist_test # "ok"
                 THEN /\ info = "ok" /\ ~raised
                      /\ sec = [s \in DOMAIN sec |-> "ok"]
                      /\ ret' = [ret EXCEPT ![c] =
                            IF hist_test = "empty"
                            THEN _create_empty_security_data(ticker,
                                                             "No historical data available")
                            ELSE Try(Raised("upstream failed"),
                                     _create_empty_security_data(ticker,
                                                                 "Failed to retrieve security"))]
                      /\ data_cache' = Leave(_get_market_context(data_cache, now, mkt),
                                             call[c].cache_key, ret'[c], now)
                      /\ UNCHANGED succeeded
                 ELSE /\ the_sector = "None" => sec = [s \in DOMAIN sec |-> "ok"]
                      /\ IF raised
                         THEN /\ ret' = [ret EXCEPT ![c] =
                                    Try(Raised("helper failed"),
                                        _create_empty_security_data(ticker,
                                                                    "Analysis error"))]
                              /\ data_cache' = Leave(_get_market_context(c2, now, mkt),
                                                     call[c].cache_key, ret'[c], now)
                              /\ UNCHANGED succeeded
                         ELSE /\ ret' = [ret EXCEPT ![c] = result]
                              /\ data_cache' = Leave(c2, call[c].cache_key, ret'[c], now)
                              /\ succeeded' = [succeeded EXCEPT
                                    ![ticker][HourBucket(call[c].started)] = {result}]
              /\ pc' = [pc EXCEPT ![c] = "idle"]
    /\ UNCHANGED <<now, calls, lastGet, NotCache>>

\* a direct _store_in_cache(cache_key, data)
Put(cache_key, data) ==
    /\ data_cache' = _store_in_cache(data_cache, cache_key, data, now)
    /\ UNCHANGED <<now, pc, call, ret, succeeded, calls, lastGet, NotCache>>

\* a direct _get_from_cache(cache_key)
Get(cache_key) ==
    /\ lastGet' = [key |-> cache_key,
                   entry |-> IF cache_key \in DOMAIN data_cache
                             THEN {data_cache[cache_key]} ELSE {},
                   at |-> now,
                   val |-> _get_from_cache(data_cache, cache_key, now)]
    /\ UNCHANGED <<now, data_cache, pc, call, ret, succeeded, calls, NotCache>>

\* time passes
Tick ==
    /\ now < MaxClock
    /\ now' = now + 1
    /\ UNCHANGED <<data_cache, pc, call, ret, succeeded, calls, lastGet, NotCache>>

\* the state after MarketAnalyzer() (lines 22-52)
CacheInit ==
    /\ now = 0
    /\ data_cache = << >>
    /\ pc = [c \in Callers |-> "idle"]
    /\ call = [c \in Callers |-> NoCall]
    /\ ret = [c \in Callers |-> None]
    /\ calls = 0
    /\ succeeded = [t \in Tickers |-> [h \in 0..HourBucket(MaxClock) |-> {}]]
    /\ lastGet = [key |-> CacheKey("", "security", 0), entry |-> {}, at |-> 0, val |-> None]

\* the cache alone, under any sequence of stores, lookups and clock advances
NextCache ==
    \/ \E k \in RawKeys, v \in RawValues : Put(k, v)
    \/ \E k \in RawKeys : Get(k)
    \/ Tick

(***************************************************************************)
(* A cache whose entries were not all written by _store_in_cache: the      *)
(* timestamp of an entry may be a string, which line 60 parses or rejects. *)
(***************************************************************************)
\* a string in the format '%Y-%m-%d %H:%M:%S' that names the time t
TimeString(t) == [kind |-> "str", t |-> t]

\* a string that is not in that format
CorruptString == [kind |-> "corrupt"]

StoredKey == [sym |-> "k1", kind |-> "raw", bucket |-> 0]

\* data_cache with no entry, or with one entry under a string timestamp
StoredCaches ==
    {<< >>} \cup
    {StoredKey :> [cache_time |-> ct, cached_data |-> v] :
        ct \in {TimeString(0), CorruptString}, v \in RawValues}

\* CacheInit, but for the mapping
StoredInit ==
    /\ now = 0
    /\ data_cache \in StoredCaches
    /\ pc = [c \in Callers |-> "idle"]
    /\ call = [c \in Callers |-> NoCall]
    /\ ret = [c \in Callers |-> None]
    /\ calls = 0
    /\ succeeded = [t \in Tickers |-> [h \in 0..HourBucket(MaxClock) |-> {}]]
    /\ lastGet = [key |-> CacheKey("", "security", 0), entry |-> {}, at |-> 0, val |-> None]

(***************************************************************************)
(* Numbers.  A float is NaN, an infinity or the exact rational n/d, d > 0. *)
(***************************************************************************)
NaN == [k |-> "nan"]
Inf == [k |-> "inf"]
Num(n, d) == [k |-> "num", n |-> n, d |-> d]

\* x > c, x < c for a float x and an integer c; false when x is NaN
Gt(x, c) == IF x.k = "num" THEN x.n > c * x.d ELSE x.k = "inf"
Lt(x, c) == x.k = "num" /\ x.n < c * x.d

\* a > b, for two floats that are numbers
GtNum(a, b) == a.k = "num" /\ b.k = "num" /\ a.n * b.d > b.n * a.d

\* a / b as numpy divides two non-negative floats: x/0 is an infinity,
\* 0/0 and anything with NaN is NaN
Div(a, b) ==
    IF a.k = "nan" \/ b.k = "nan" THEN NaN
    ELSE IF b.n = 0 THEN (IF a.n = 0 THEN NaN ELSE Inf)
    ELSE Num(a.n * b.d, a.d * b.n)

RECURSIVE SumSeq(_)
SumSeq(s) == IF s = <<>> THEN 0 ELSE Head(s) + SumSeq(Tail(s))

\* the first w elements of s
LastRows_first(s, w) == SubSeq(s, 1, w)

\* the last w elements of s (Len(s) >= w)
LastRows(s, w) == SubSeq(s, Len(s) - w + 1, Len(s))

\* s.rolling(window=w).mean().iloc[-1]: NaN with fewer than w rows
RollingMeanLast(s, w) ==
    IF Len(s) < w THEN NaN ELSE Num(SumSeq(LastRows(s, w)), w)

(***************************************************************************)
(* _get_technical_analysis(price_data), lines 1181-1278.                   *)
(***************************************************************************)

\* window sizes and thresholds of the indicators
SMA5Window == 5
SMA10Window == 10
RSIWindow == 14
BollingerWindow == 20
BollingerWidth == 2
RSIOverbought == 70
RSIOversold == 30
MinRows == 10

\* line 1190: len(df) < 10
TooFewRows_lt9(df) == Len(df) < MinRows - 1

TooFewRows(df) == Len(df) < MinRows

\* lines 1197-1210
SMAResult(close) ==
    LET last_close == close[Len(close)]
        last_sma5 == RollingMeanLast(close, SMA5Window)
        last_sma10 == RollingMeanLast(close, SMA10Window)
    IN  [sma5 |-> last_sma5,
         sma10 |-> last_sma10,
         sma5_signal |-> IF GtNum(Num(last_close, 1), last_sma5) THEN "buy" ELSE "sell",
         sma10_signal |-> IF GtNum(Num(last_close, 1), last_sma10) THEN "buy" ELSE "sell",
         crossover |-> IF GtNum(last_sma5, last_sma10) THEN "bullish" ELSE "bearish"]

\* delta = df['Close'].diff(): delta[i] for i > 1; delta[1] is NaN
Delta(close, i) == close[i] - close[i - 1]

\* delta.where(delta > 0, 0): NaN > 0 is false, so row 1 becomes 0
GainSeries(close) ==
    [i \in 1..Len(close) |-> IF i > 1 /\ Delta(close, i) > 0 THEN Delta(close, i) ELSE 0]

\* -delta.where(delta < 0, 0)
LossSeries(close) ==
    [i \in 1..Len(close) |-> IF i > 1 /\ Delta(close, i) < 0 THEN -Delta(close, i) ELSE 0]

\* 100 - (100 / (1 + rs))
RSIOf(rs) ==
    IF rs.k = "nan" THEN NaN
    ELSE IF rs.k = "inf" THEN Num(100, 1)
    ELSE Num(100 * rs.n, rs.n + rs.d)

\* lines 1216-1223: last_rsi
LastRSI(close) ==
    LET gain == RollingMeanLast(GainSeries(close), RSIWindow)
        loss == RollingMeanLast(LossSeries(close), RSIWindow)
        rs == Div(gain, loss)
    IN  RSIOf(rs)

\* line 1226
RSISignal(last_rsi) ==
    IF Gt(last_rsi, RSIOverbought) THEN "sell"
    ELSE IF Lt(last_rsi, RSIOversold) THEN "buy"
    ELSE "neutral"

\* A Bollinger band, SMA_20 + side * 2 * Std_Dev with side = 1 or -1, kept
\* as the window's sum S and V = w * (sum of squares) - S * S, so that the
\* mean is S / w and the sample variance (ddof = 1) is V / (w * (w - 1)).
\* NaN with fewer than w rows.
Band(close, w, side) ==
    IF Len(close) < w THEN NaN
    ELSE LET win == LastRows(close, w)
             S == SumSeq(win)
             Q == SumSeq([i \in 1..w |-> win[i] * win[i]])
         IN  [k |-> "band", w |-> w, S |-> S, V |-> w * Q - S * S, side |-> side]

Abs(x) == IF x < 0 THEN -x ELSE x

\* c compared with a band, both scaled: with d = w c - S and D the band's
\* offset from the mean times w, c > band iff d > side * D iff
\* (w-1) d |d| > side * 4 w V, the map y -> y |y| being increasing.
ScaledClose(c, band) == (band.w - 1) * (band.w * c - band.S) * Abs(band.w * c - band.S)
ScaledBand(band) == band.side * BollingerWidth * BollingerWidth * band.w * band.V

\* last_close > band and last_close < band; false against NaN
GtBand(c, band) == band.k = "band" /\ ScaledClose(c, band) > ScaledBand(band)
LtBand(c, band) == band.k = "band" /\ ScaledClose(c, band) < ScaledBand(band)

\* line 1265 with the comparisons not strict
BollingerSignal_ge(last_close, last_upper, last_lower) ==
    IF last_upper.k = "band" /\ ~LtBand(last_close, last_upper) THEN "sell"
    ELSE IF last_lower.k = "band" /\ ~GtBand(last_close, last_lower) THEN "buy"
    ELSE "neutral"

\* line 1265
BollingerSignal(last_close, last_upper, last_lower) ==
    IF GtBand(last_close, last_upper) THEN "sell"
    ELSE IF LtBand(last_close, last_lower) THEN "buy"
    ELSE "neutral"

\* lines 1251-1266
BollingerResult(close) ==
    LET last_close == close[Len(close)]
        last_upper == Band(close, BollingerWindow, 1)
        last_lower == Band(close, BollingerWindow, -1)
    IN  [upper |-> last_upper,
         middle |-> RollingMeanLast(close, BollingerWindow),
         lower |-> last_lower,
         signal |-> BollingerSignal(last_close, last_upper, last_lower)]

\* lines 1232-1245.  The exponential averages are not computed: whether
\* last_macd > last_signal is an input of the call.
MACDSignal(macd_above) == IF macd_above THEN "buy" ELSE "sell"

Indicators == {"sma", "rsi", "macd", "bollinger"}

\* dict.get(key, default)
DictGet(d, key, default) == IF key \in DOMAIN d THEN d[key] ELSE default

\* lines 1271-1276
Signals(a) ==
    [sma |-> IF "sma" \in DOMAIN a THEN a["sma"].sma5_signal ELSE "neutral",
     rsi |-> DictGet(a, "rsi_signal", "neutral"),
     macd |-> DictGet(a, "macd_signal", "neutral"),
     bollinger |-> IF "bollinger" \in DOMAIN a THEN a["bollinger"].signal ELSE "neutral"]

\* the four blocks inside one try/except: the first block in `exc` ends them
IndicatorBlocks_oneTry(close, exc, macd_above) ==
    LET sma == IF "sma" \in exc THEN << >>
               ELSE ("sma" :> SMAResult(close))
        rsi == IF {"sma", "rsi"} \cap exc # {} THEN << >>
               ELSE ("rsi" :> LastRSI(close)) @@ ("rsi_signal" :> RSISignal(LastRSI(close)))
        macd == IF {"sma", "rsi", "macd"} \cap exc # {} THEN << >>
                ELSE ("macd_signal" :> MACDSignal(macd_above))
        bollinger == IF exc # {} THEN << >>
                     ELSE ("bollinger" :> BollingerResult(close))
    IN  sma @@ rsi @@ macd @@ bollinger

\* lines 1193-1268: the four blocks, each inside its own try/except; a
\* block in `exc` raises before it assigns anything
IndicatorBlocks(close, exc, macd_above) ==
    LET sma == IF "sma" \in exc THEN << >>
               ELSE ("sma" :> SMAResult(close))
        rsi == IF "rsi" \in exc THEN << >>
               ELSE ("rsi" :> LastRSI(close)) @@ ("rsi_signal" :> RSISignal(LastRSI(close)))
        macd == IF "macd" \in exc THEN << >>
                ELSE ("macd_signal" :> MACDSignal(macd_above))
        bollinger == IF "bollinger" \in exc THEN << >>
                     ELSE ("bollinger" :> BollingerResult(close))
    IN  sma @@ rsi @@ macd @@ bollinger

\* the returned dict; << >> is the empty dict
_get_technical_analysis(pd, exc, macd_above) ==
    IF pd = << >> \/ "week" \notin DOMAIN pd \/ pd["week"] = << >>
    THEN << >>
    ELSE IF TooFewRows(pd["week"])
    THEN << >>
    ELSE LET a == IndicatorBlocks(pd["week"], exc, macd_above)
         IN  a @@ ("signals" :> Signals(a))

(***************************************************************************)
(* The inputs of _get_technical_analysis: a flat run of closes followed by *)
(* any short tail, under the key 'week' or not.                            *)
(***************************************************************************)
MaxFlat == 20
MaxTail == 3
Closes == {1, 2, 3}
\* n rows closing at 2
Flat(n) == [i \in 1..n |-> 2]

Tails == UNION {[1..n -> Closes] : n \in 0..MaxTail}

WeekSeries == {Flat(n) \o t : n \in 0..MaxFlat, t \in Tails}

NotCalled == [called |-> FALSE]

TAIdle ==
    /\ price_data = << >>
    /\ raises = {}
    /\ analysis = NotCalled

TAInit ==
    /\ price_data \in {<< >>} \cup {("month" :> s) : s \in {Flat(MinRows)}}
                     \cup {("week" :> s) : s \in WeekSeries}
    /\ raises \in {{}, {"rsi"}, {"bollinger"}, {"sma", "macd"}, Indicators}
    /\ analysis = NotCalled

\* a call of _get_technical_analysis(price_data)
TechnicalAnalysis ==
    /\ analysis = NotCalled
    /\ \E macd_above \in BOOLEAN :
          analysis' = [called |-> TRUE,
                       bundle |-> _get_technical_analysis(price_data, raises, macd_above)]
    /\ UNCHANGED <<price_data, raises, cacheVars, newsVars, corrVars, narrVars>>

NextTA == TechnicalAnalysis

(***************************************************************************)
(* Strings.                                                                *)
(***************************************************************************)
CharAt(s, i) == SubSeq(s, i, i)

UpperToLower ==
    ("A" :> "a") @@ ("B" :> "b") @@ ("C" :> "c") @@ ("D" :> "d") @@ ("E" :> "e") @@
    ("F" :> "f") @@ ("G" :> "g") @@ ("H" :> "h") @@ ("I" :> "i") @@ ("J" :> "j") @@
    ("K" :> "k") @@ ("L" :> "l") @@ ("M" :> "m") @@ ("N" :> "n") @@ ("O" :> "o") @@
    ("P" :> "p") @@ ("Q" :> "q") @@ ("R" :> "r") @@ ("S" :> "s") @@ ("T" :> "t") @@
    ("U" :> "u") @@ ("V" :> "v") @@ ("W" :> "w") @@ ("X" :> "x") @@ ("Y" :> "y") @@
    ("Z" :> "z")

\* str.lower()
RECURSIVE Lower(_)
Lower(s) ==
    IF s = "" THEN ""
    ELSE LET c == CharAt(s, 1)
         IN  (IF c \in DOMAIN UpperToLower THEN UpperToLower[c] ELSE c)
                 \o Lower(SubSeq(s, 2, Len(s)))

\* sub in s
Contains(s, sub) ==
    \E i \in 1..(Len(s) - Len(sub) + 1) : SubSeq(s, i, i + Len(sub) - 1) = sub

\* s.split(sep)[0], for a one-character sep
RECURSIVE SplitFirst(_, _)
SplitFirst(s, sep) ==
    IF s = "" \/ CharAt(s, 1) = sep THEN ""
    ELSE CharAt(s, 1) \o SplitFirst(SubSeq(s, 2, Len(s)), sep)

\* s without its leading and trailing hyphens
RECURSIVE StripHyphens(_)
StripHyphens(w) ==
    IF w = "" THEN ""
    ELSE IF CharAt(w, 1) = "-" THEN StripHyphens(SubSeq(w, 2, Len(w)))
    ELSE IF CharAt(w, Len(w)) = "-" THEN StripHyphens(SubSeq(w, 1, Len(w) - 1))
    ELSE w

\* the chunks of s between spaces, in order
RECURSIVE Chunks(_, _)
Chunks(s, cur) ==
    IF s = "" THEN (IF cur = "" THEN <<>> ELSE <<cur>>)
    ELSE IF CharAt(s, 1) = " "
         THEN (IF cur = "" THEN <<>> ELSE <<cur>>) \o Chunks(SubSeq(s, 2, Len(s)), "")
         ELSE Chunks(SubSeq(s, 2, Len(s)), cur \o CharAt(s, 1))

\* re.findall(r'\b[A-Za-z][A-Za-z\-]{2,}\b', text), line 645, for a text of
\* letters, hyphens and spaces: a match starts at a letter after a space or
\* hyphen, runs greedily to the end of the chunk and backs off the trailing
\* hyphens, and needs three characters
MinWordLen == 3

FindWords(text) ==
    LET stripped == [i \in 1..Len(Chunks(text, "")) |-> StripHyphens(Chunks(text, "")[i])]
        LongEnough(w) == Len(w) >= MinWordLen
    IN  SelectSeq(stripped, LongEnough)

(***************************************************************************)
(* analyze_news_impact(news_items), lines 576-731.  A news item is a dict; *)
(* the polarity TextBlob gives the item's content is carried by the item   *)
(* under "polarity", in hundredths.  Entities, sources and urls are left   *)
(* out.                                                                    *)
(***************************************************************************)
PositiveThreshold == 20
NegativeThreshold == -20
LabelThreshold == 10
MaxKeywords == 20
MaxLenDropped == 3

\* lines 646-652
StopWords ==
    {"this", "that", "these", "those", "there", "their", "they",
     "what", "when", "where", "which", "while", "with", "would",
     "about", "above", "after", "again", "against", "could", "should",
     "from", "have", "having", "here", "more", "once", "only", "same", "some",
     "such", "than", "then", "through"}

\* lines 605 and 610, two of the eleven topics
topic_keywords ==
    <<[topic |-> "earnings",
       keywords |-> {"earnings", "revenue", "profit", "loss", "quarter", "financial",
                     "eps", "income", "guidance"}],
      [topic |-> "market_trend",
       keywords |-> {"market", "index", "dow", "nasdaq", "s&p", "bull", "bear", "trend",
                     "correction"}]>>

\* a list that is passed where None or a dict may be passed too
List(seq) == [list |-> seq]

\* isinstance(v, list)
IsList(v) == "list" \in DOMAIN v

\* not v, for None, a dict or a list
Falsy(v) == v = None \/ v = << >> \/ (IsList(v) /\ v.list = <<>>)

\* line 584 without the test of the title's value
ValidItem_keyOnly(item) ==
    /\ ~Falsy(item)
    /\ "title" \in DOMAIN item

\* line 584
ValidItem(item) ==
    /\ ~Falsy(item)
    /\ "title" \in DOMAIN item
    /\ item["title"] # ""

\* lines 635-642 with the boundaries included
Categorize_ge(sentiment_score) ==
    IF sentiment_score >= PositiveThreshold THEN "positive"
    ELSE IF sentiment_score <= NegativeThreshold THEN "negative"
    ELSE "neutral"

\* lines 634-642
Categorize(sentiment_score) ==
    IF sentiment_score > PositiveThreshold THEN "positive"
    ELSE IF sentiment_score < NegativeThreshold THEN "negative"
    ELSE "neutral"

\* line 627: f"{title} {summary}"
Content(item) == item["title"] \o " " \o DictGet(item, "summary", "")

\* lines 645-652
FilteredWords(content) ==
    LET Kept(w) == Len(w) > MaxLenDropped /\ w \notin StopWords
    IN  SelectSeq(FindWords(Lower(content)), Kept)

\* Counter.update(words): counts kept in first-encountered order
RECURSIVE CounterUpdate(_, _)
CounterUpdate(counter, words) ==
    IF words = <<>> THEN counter
    ELSE LET w == Head(words)
             seen == \E i \in 1..Len(counter) : counter[i].word = w
             at == CHOOSE i \in 1..Len(counter) : counter[i].word = w
             next == IF seen
                     THEN SubSeq(counter, 1, at - 1)
                              \o <<[word |-> w, count |-> counter[at].count + 1]>>
                              \o SubSeq(counter, at + 1, Len(counter))
                     ELSE Append(counter, [word |-> w, count |-> 1])
         IN  CounterUpdate(next, Tail(words))

\* sorted(seq, key=..., reverse=True), keys[i] the key of seq[i]: stable,
\* descending
SortedDesc(seq, keys) ==
    LET order[n \in 0..Len(seq)] ==
            IF n = 0 THEN <<>>
            ELSE LET rest == order[n - 1]
                     pos == Cardinality({i \in 1..Len(rest) : keys[rest[i]] >= keys[n]})
                 IN  SubSeq(rest, 1, pos) \o <<n>> \o SubSeq(rest, pos + 1, Len(rest))
    IN  [i \in 1..Len(seq) |-> seq[order[Len(seq)][i]]]

\* seq[:n]
Take(seq, n) == SubSeq(seq, 1, IF Len(seq) < n THEN Len(seq) ELSE n)

\* the first n entries of the counter, in first-encountered order
MostCommon_unsorted(counter, n) == Take(counter, n)

\* Counter.most_common(n): the n largest counts, ties in first-encountered
\* order
MostCommon(counter, n) ==
    Take(SortedDesc(counter, [i \in 1..Len(counter) |-> counter[i].count]), n)

\* lines 656-661
DetectedTopics(content_lower) ==
    LET Hit(t) == \E kw \in t.keywords : Contains(content_lower, kw)
        hits == SelectSeq(topic_keywords, Hit)
    IN  [i \in 1..Len(hits) |-> hits[i].topic]

\* lines 664-672; the timestamp defaults to the time of the call
SentimentItem(item) ==
    [title |-> item["title"],
     sentiment |-> item["polarity"],
     sentiment_category |-> Categorize(item["polarity"]),
     timestamp |-> DictGet(item, "timestamp", "2025-04-12 12:00:00"),
     topics |-> DetectedTopics(Lower(Content(item)))]

(***************************************************************************)
(* The news items of the model, and the loop body of lines 625-672 on     *)
(* each of them.                                                           *)
(***************************************************************************)
Item(title, summary, polarity, timestamp) ==
    ("title" :> title) @@ ("summary" :> summary) @@ ("polarity" :> polarity)
        @@ ("timestamp" :> timestamp)

ItemPool ==
    { Item("Apple profit beats forecast",
           "revenue growth strong while margin gains with cloud", 21, "2025-04-12 09:30"),
      Item("Market slump deepens",
           "stocks tumble after weak jobs data and tariff fears rise", -21,
           "2025-04-12T10:00:00"),
      Item("Apple Apple cloud", "", 20, "2025-04-11"),
      ("title" :> "CEO out") @@ ("polarity" :> -20),
      Item("", "untitled wire copy", 21, "2025-04-12 08:00"),
      ("summary" :> "profit warning") @@ ("polarity" :> -21) @@ ("timestamp" :> "2025-04-11"),
      ("title" :> "Chip-maker co-op deal--") @@ ("polarity" :> 15)
          @@ ("timestamp" :> "2025-04-1"),
      Item("Bank earnings steady", "lender keeps payout plan unchanged", 0,
           "2025-04-12T09:30:00 UTC"),
      Item("Apple slump", "", -15, "2025-04-11 16:00"),
      << >> }

\* negative items on 2025-04-04, 04-05, 04-08 and 04-11
ScenarioItems ==
    {Item("Recall widens", "", -21, ts) :
        ts \in {"2025-04-04 09:00", "2025-04-05 09:00", "2025-04-08T09:00:00", "2025-04-11"}}

DelimiterItems ==
    <<Item("Recall widens", "", -21, "2025-04-12 09:30"),
      Item("Recall widens", "", -21, "2025-04-12T10:00:00"),
      Item("Recall widens", "", -21, "2025-04-12T09:30:00 UTC")>>

ScoredItems ==
    <<Item("Recall widens", "", -21, "2025-04-12 09:30") @@ ("sentiment" :> Num(-50, 1)),
      Item("Recall ends", "", 21, "2025-04-12 10:30") @@ ("sentiment" :> Num(50, 1)),
      Item("Recall widens", "", -21, "2025-04-12 11:30") @@ ("sentiment" :> None)>>

\* the items of every news list of the model
AllItems ==
    ItemPool \cup ScenarioItems
        \cup {DelimiterItems[i] : i \in DOMAIN DelimiterItems}
        \cup {ScoredItems[i] : i \in DOMAIN ScoredItems}

\* lines 625-672 for one valid item: its sentiment record and the words it
\* adds to the keyword counter
LoopBody ==
    [item \in {i \in AllItems : ValidItem(i)} |->
        [sentiment_item |-> SentimentItem(item),
         words |-> FilteredWords(Content(item))]]

\* lines 719-731
_get_empty_news_analysis ==
    [sentiments |-> <<>>,
     topics |-> << >>,
     keywords |-> <<>>,
     average_sentiment |-> Num(0, 1),
     sentiment_distribution |-> [positive |-> 0, negative |-> 0, neutral |-> 0],
     sentiment_label |-> "Neutral",
     news_items |-> <<>>]

RECURSIVE AllWords(_)
AllWords(items) ==
    IF items = <<>> THEN <<>>
    ELSE LoopBody[Head(items)].words \o AllWords(Tail(items))

\* line 660: the topics in the order in which the items add them
RECURSIVE AllTopics(_)
AllTopics(sentiments) ==
    IF sentiments = <<>> THEN <<>>
    ELSE Head(sentiments).topics \o AllTopics(Tail(sentiments))

\* line 677: item['entities'] is not a dict, so that .items() raises
BadEntities(item) == "entities" \in DOMAIN item /\ IsList(item["entities"])

\* lines 579-712, the body of the try
AnalysisBody(items) ==
    IF Falsy(items) THEN _get_empty_news_analysis
    ELSE
    LET valid_news_items == SelectSeq(items.list, ValidItem)
    IN  IF valid_news_items = <<>> THEN _get_empty_news_analysis
        ELSE IF \E i \in 1..Len(valid_news_items) : BadEntities(valid_news_items[i])
        THEN Raised("'list' object has no attribute 'items'")
        ELSE
        LET sentiments == [i \in 1..Len(valid_news_items) |->
                              LoopBody[valid_news_items[i]].sentiment_item]
            IsCat(c) == Len(SelectSeq(sentiments, LAMBDA r : r.sentiment_category = c))
            total_sentiment == SumSeq([i \in 1..Len(sentiments) |-> sentiments[i].sentiment])
            keyword_counter == CounterUpdate(<<>>, AllWords(valid_news_items))
            top == MostCommon(keyword_counter, MaxKeywords)
            topic_counter == CounterUpdate(<<>>, AllTopics(sentiments))
        IN  [sentiments |-> sentiments,
             topics |-> [i \in 1..Len(topic_counter) |->
                            [topic |-> topic_counter[i].word,
                             count |-> topic_counter[i].count]],
             keywords |-> [i \in 1..Len(top) |-> top[i].word],
             average_sentiment |-> Num(total_sentiment, Len(valid_news_items)),
             sentiment_distribution |->
                 [positive |-> IsCat("positive"), negative |-> IsCat("negative"),
                  neutral |-> IsCat("neutral")],
             sentiment_label |->
                 IF total_sentiment > LabelThreshold * Len(valid_news_items) THEN "Positive"
                 ELSE IF total_sentiment < -LabelThreshold * Len(valid_news_items)
                      THEN "Negative"
                      ELSE "Neutral",
             news_items |-> SortedDesc(sentiments,
                               [i \in 1..Len(sentiments) |-> Abs(sentiments[i].sentiment)])]

\* lines 578-717
analyze_news_impact(items) == Try(AnalysisBody(items), _get_empty_news_analysis)

MaxItems == 3

NewsLists == {List(l) : l \in UNION {[1..n -> ItemPool] : n \in 0..MaxItems}}

NewsIdle ==
    /\ news_items = None
    /\ news_analysis = NotCalled

NewsInit ==
    /\ news_items \in NewsLists \cup {None}
    /\ news_analysis = NotCalled

\* a call of analyze_news_impact(news_items)
AnalyzeNews ==
    /\ news_analysis = NotCalled
    /\ news_analysis' = [called |-> TRUE, result |-> analyze_news_impact(news_items)]
    /\ UNCHANGED <<news_items, cacheVars, taVars, corrVars, narrVars>>

NextNews == AnalyzeNews

(***************************************************************************)
(* compute_price_news_correlation(security_data, news_items), lines        *)
(* 383-574.  A price series is a sequence of rows, each with its index     *)
(* (a calendar day) and its Close.  The coefficient is the pair            *)
(* [num, den2] that stands for num / sqrt(den2).                           *)
(***************************************************************************)
DaysLimit == 10
CorrNegativeThreshold == -10
CorrPositiveThreshold == 10
DateLen == 10

Digits == <<"0", "1", "2", "3", "4", "5", "6", "7", "8", "9">>

Pad2(n) == Digits[((n \div 10) % 10) + 1] \o Digits[(n % 10) + 1]

\* index.strftime('%Y-%m-%d'), line 515
strftime(ts) ==
    Pad2(ts.year \div 100) \o Pad2(ts.year % 100) \o "-" \o Pad2(ts.month) \o "-" \o Pad2(ts.day)

\* lines 439-444 and 473-478
DateStr(timestamp) ==
    IF Contains(timestamp, " ") THEN SplitFirst(timestamp, " ")
    ELSE IF Contains(timestamp, "T") THEN SplitFirst(timestamp, "T")
    ELSE SubSeq(timestamp, 1, IF Len(timestamp) < DateLen THEN Len(timestamp) ELSE DateLen)

\* lines 433-447 and 468-481: the item is counted
Dated(item) ==
    /\ ~Falsy(item)
    /\ "timestamp" \in DOMAIN item
    /\ Len(DateStr(item["timestamp"])) >= DateLen

\* lines 455 and 489-498: the sentiment of a record of the analysis, and of a
\* raw item
SentimentOf(item, raw) ==
    IF raw
    THEN (IF "sentiment" \in DOMAIN item THEN item["sentiment"].n ELSE item["polarity"])
    ELSE DictGet(item, "sentiment", 0)

\* lines 490 and 500: the 'sentiment' of a raw item is None, and
\* None < -0.1 raises a TypeError.  A raw item's own 'sentiment' is a float
\* Num(n, 1) or None; the records of an analysis hold numbers.
Unordered(item, raw) ==
    raw /\ "sentiment" \in DOMAIN item /\ item["sentiment"] = None

\* lines 457-462 and 500-505
CountedAs(sentiment) ==
    IF sentiment < CorrNegativeThreshold THEN "negative"
    ELSE IF sentiment > CorrPositiveThreshold THEN "positive"
    ELSE "neutral"

ZeroCounts == [total |-> 0, negative |-> 0, neutral |-> 0, positive |-> 0]

\* lines 428-507: news_by_date.  The total of the date is incremented at
\* line 454 or 486, before the sentiment is compared; an item whose
\* comparison raises is left by the except of line 463 or 506 with its total
\* counted and no other count.
NewsByDate(news) ==
    LET raw == ~("sentiments" \in DOMAIN news)
        items == IF raw THEN news.list ELSE news["sentiments"]
        dated == SelectSeq(items, Dated)
        entries == [i \in 1..Len(dated) |->
                       [date_str |-> DateStr(dated[i]["timestamp"]),
                        counted |-> IF Unordered(dated[i], raw) THEN "none"
                                    ELSE CountedAs(SentimentOf(dated[i], raw))]]
        On(d, c) == Len(SelectSeq(entries, LAMBDA e : e.date_str = d /\ e.counted = c))
    IN  [d \in {entries[i].date_str : i \in 1..Len(entries)} |->
            [total |-> Len(SelectSeq(entries, LAMBDA e : e.date_str = d)),
             negative |-> On(d, "negative"),
             neutral |-> On(d, "neutral"),
             positive |-> On(d, "positive")]]

\* lines 413, 415, 417: the data holds a series of that name that is not empty
Available(data, period) == period \in DOMAIN data /\ data[period] # <<>>

\* lines 413-421: there is a series to analyse
HasSeries(data) ==
    Available(data, "week") \/ Available(data, "month") \/ Available(data, "year")

\* the series that is analysed, were the coarsest one preferred
SelectSeries_coarsest(data) ==
    IF Available(data, "year") THEN data["year"]
    ELSE IF Available(data, "month") THEN data["month"]
    ELSE data["week"]

\* lines 413-418: the series that is analysed
SelectSeries(data) ==
    IF Available(data, "week") THEN data["week"]
    ELSE IF Available(data, "month") THEN data["month"]
    ELSE data["year"]

\* lines 514-532
CorrelationData(rows, news_by_date) ==
    [i \in 1..Len(rows) |->
        LET date == strftime(rows[i].index)
            news_counts == IF date \in DOMAIN news_by_date THEN news_by_date[date]
                           ELSE ZeroCounts
        IN  [date |-> date,
             price |-> rows[i].Close,
             total_news |-> news_counts.total,
             negative_news |-> news_counts.negative,
             neutral_news |-> news_counts.neutral,
             positive_news |-> news_counts.positive]]

\* line 537 without the test of the counts
HasVariation_prices(prices, neg_news_counts) ==
    Cardinality({prices[i] : i \in 1..Len(prices)}) > 1

\* line 537
HasVariation(prices, neg_news_counts) ==
    /\ Cardinality({prices[i] : i \in 1..Len(prices)}) > 1
    /\ SumSeq(neg_news_counts) > 0

\* lines 549-555, each centered value multiplied by len(prices): the sums of
\* centered products, multiplied by len(prices) squared
Centered(xs) == [i \in 1..Len(xs) |-> Len(xs) * xs[i] - SumSeq(xs)]

CenteredSum(xs, ys) == SumSeq([i \in 1..Len(xs) |-> Centered(xs)[i] * Centered(ys)[i]])

Coefficient(num, den2) == [num |-> num, den2 |-> den2]

\* np.corrcoef with the covariance divided by len(prices) and the variances by
\* len(prices) - 1
PrimaryCoefficient_mixed(prices, neg_news_counts) ==
    LET denom == CenteredSum(prices, prices) * CenteredSum(neg_news_counts, neg_news_counts)
        n == Len(prices)
    IN  IF denom = 0 THEN Coefficient(0, 1)
        ELSE Coefficient(CenteredSum(prices, neg_news_counts) * n,
                         denom * (n - 1) * (n - 1))

\* lines 540-543: np.corrcoef(prices, neg_news_counts)[0, 1], a NaN coerced to
\* 0.  numpy divides the covariance by the square root of the product of the
\* variances, each of the three being a sum of centered products divided by
\* len(prices) - 1; numerator and denominator are multiplied here by
\* (len(prices) - 1) squared to stay integers.
PrimaryCoefficient(prices, neg_news_counts) ==
    LET denom == CenteredSum(prices, prices) * CenteredSum(neg_news_counts, neg_news_counts)
        n == Len(prices)
    IN  IF denom = 0 THEN Coefficient(0, 1)
        ELSE Coefficient(CenteredSum(prices, neg_news_counts) * (n - 1),
                         denom * (n - 1) * (n - 1))

\* lines 548-559: the manual formula; the coefficient stays None when a
\* denominator is zero
FallbackCoefficient(prices, neg_news_counts) ==
    LET numerator == CenteredSum(prices, neg_news_counts)
        denom_price == CenteredSum(prices, prices)
        denom_news == CenteredSum(neg_news_counts, neg_news_counts)
    IN  IF Len(prices) = Len(neg_news_counts) /\ Len(prices) > 0
           /\ denom_price > 0 /\ denom_news > 0
        THEN Coefficient(numerator, denom_price * denom_news)
        ELSE None

\* a string where None may stand too
Str(s) == [str |-> s]

\* lines 396-401
CorrelationResult(coefficient, days, data, error) ==
    [correlation_coefficient |-> coefficient, days_analyzed |-> days, data |-> data,
     error |-> error]

\* the index of a row is a timestamp; the index of a frame that was built
\* without dates is a position, which has no strftime
IsTimestamp(index) == "year" \in DOMAIN index

\* lines 569-574 without the 'data' entry
CatchAllResult_noData(message) ==
    [error |-> Str("Error in correlation calculation: " \o message),
     correlation_coefficient |-> None,
     days_analyzed |-> 0]

\* lines 566-574
CatchAllResult(message) ==
    [error |-> Str("Error in correlation calculation: " \o message),
     correlation_coefficient |-> None,
     days_analyzed |-> 0,
     data |-> <<>>]

\* lines 395-564, the body of the try; primary_raises: np.corrcoef, or the
\* import of numpy, raises
CorrelationBody(sd, news, primary_raises) ==
    IF Falsy(sd) \/ ~("data" \in DOMAIN sd)
    THEN CorrelationResult(None, 0, <<>>, Str("No security data available"))
    ELSE IF Falsy(news)
    THEN CorrelationResult(None, 0, <<>>, Str("No news items available"))
    ELSE IF ~HasSeries(sd["data"])
    THEN CorrelationResult(None, 0, <<>>, Str("No historical price data available"))
    ELSE
    LET rows == LastRows(SelectSeries(sd["data"]),
                         IF Len(SelectSeries(sd["data"])) < DaysLimit
                         THEN Len(SelectSeries(sd["data"])) ELSE DaysLimit)
        correlation_data == CorrelationData(rows, NewsByDate(news))
        prices == [i \in 1..Len(rows) |-> correlation_data[i].price]
        neg_news_counts == [i \in 1..Len(rows) |-> correlation_data[i].negative_news]
        coefficient ==
            IF Len(prices) >= 2 /\ HasVariation(prices, neg_news_counts)
            THEN (IF primary_raises THEN FallbackCoefficient(prices, neg_news_counts)
                  ELSE PrimaryCoefficient(prices, neg_news_counts))
            ELSE None
    IN  IF \E i \in 1..Len(rows) : ~IsTimestamp(rows[i].index)
        THEN Raised("'int' object has no attribute 'strftime'")
        ELSE CorrelationResult(coefficient, Len(correlation_data), correlation_data, None)

\* lines 394-574
compute_price_news_correlation(sd, news, primary_raises) ==
    Try(CorrelationBody(sd, news, primary_raises),
        CatchAllResult(CorrelationBody(sd, news, primary_raises).raised))

(***************************************************************************)
(* The arguments of compute_price_news_correlation in the model.           *)
(***************************************************************************)
MaxRows == 2
MaxCorrItems == 2

\* a series that ends on 2025-04-12, one row a day
SeriesOf(closes) ==
    [i \in 1..Len(closes) |->
        [index |-> [year |-> 2025, month |-> 4, day |-> 12 - Len(closes) + i],
         Close |-> closes[i]]]

\* two rows of a frame whose index is the row position
Unindexed == <<[index |-> [pos |-> 0], Close |-> 1], [index |-> [pos |-> 1], Close |-> 2]>>

ShortSeries == {SeriesOf(c) : c \in UNION {[1..n -> {1, 2}] : n \in 0..MaxRows}}

LongSeries == {SeriesOf([i \in 1..n |-> 1 + (i % 2)]) : n \in {10, 11}}

\* ten closes, 2025-04-03 to 2025-04-12
ScenarioCloses == <<100, 101, 99, 102, 103, 101, 104, 105, 103, 106>>

\* the news whose negative counts on those ten days are 0,1,2,0,0,1,0,0,1,0
ScenarioNews ==
    List(<<Item("Recall widens", "", -21, "2025-04-04 09:00"),
           Item("Recall widens", "", -21, "2025-04-05 09:00"),
           Item("Recall widens", "", -21, "2025-04-05 09:00"),
           Item("Recall widens", "", -21, "2025-04-08T09:00:00"),
           Item("Recall widens", "", -21, "2025-04-11")>>)

\* three items of 2025-04-12: a space-delimited timestamp, a T-delimited
\* one, and a T-delimited one with a zone name after a space
DelimiterNews == List(DelimiterItems)

\* three items of 2025-04-12 that carry a 'sentiment' of their own: -0.5, 0.5
\* and None
ScoredNews == List(ScoredItems)

SecurityData ==
    {None, << >>, [ticker |-> "AAPL"], [data |-> << >>], [data |-> [week |-> Unindexed]]}
        \cup {[data |-> [week |-> s]] :
                 s \in ShortSeries \cup LongSeries \cup {SeriesOf(ScenarioCloses)}}
        \cup {[data |-> [week |-> SeriesOf(<<2>>), month |-> SeriesOf(<<1, 2>>),
                         year |-> SeriesOf(<<1, 1, 1>>)]],
              [data |-> [week |-> <<>>, month |-> SeriesOf(<<1, 2>>)]],
              [data |-> [month |-> SeriesOf(<<2, 1>>), year |-> SeriesOf(<<1, 1, 2>>)]],
              [data |-> [week |-> <<>>, month |-> <<>>, year |-> SeriesOf(<<1, 2, 1>>)]],
              [data |-> [week |-> <<>>, month |-> <<>>, year |-> <<>>]]}

\* the items that are dicts and are not counted as positive by the analysis
CorrPool == {item \in ItemPool : item # << >> /\ item["polarity"] <= 20}

CorrNewsLists ==
    {List(l) : l \in UNION {[1..n -> CorrPool] : n \in 0..MaxCorrItems}} \cup {ScenarioNews, DelimiterNews, ScoredNews}

CorrIdle ==
    /\ security_data = None
    /\ correlation = NotCalled
    /\ price_summary = NotCalled
    /\ explanation = NotCalled

CorrInit ==
    /\ news_items \in CorrNewsLists \cup {None}
    /\ news_analysis = NotCalled
    /\ security_data \in SecurityData
    /\ correlation = NotCalled
    /\ price_summary = NotCalled
    /\ explanation = NotCalled

\* a call of compute_price_news_correlation on the news list, or on the
\* analysis of it once there is one
Correlate ==
    /\ correlation = NotCalled
    /\ \E news \in {news_items} \cup
                    (IF news_analysis.called THEN {news_analysis.result} ELSE {}),
          primary_raises \in BOOLEAN :
          correlation' =
              [called |-> TRUE, news |-> news, primary_raises |-> primary_raises,
               result |-> compute_price_news_correlation(security_data, news,
                                                         primary_raises)]
    /\ UNCHANGED <<security_data, cacheVars, taVars, newsVars, narrVars>>

NextCorr == AnalyzeNews \/ Correlate

(***************************************************************************)
(* _generate_price_summary(security_data, ticker), lines 780-817.  The     *)
(* value is None or the sentence; the sentence is kept as the record of    *)
(* the parts it is formatted from.  The volume clause is left out.         *)
(***************************************************************************)
SlightBelow == 1
SignificantAbove == 3

\* abs() of a float
AbsNum(x) == IF x.k = "num" THEN Num(Abs(x.n), x.d) ELSE x

\* line 793: (price_change / open_price) * 100, for open_price > 0
ChangePct(price_change, open_price) == Num(price_change * 100, open_price)

\* line 798
Direction(price_change) == IF price_change > 0 THEN "up" ELSE "down"

\* line 799 with the upper boundary included
Magnitude_ge(price_change_pct) ==
    IF Lt(AbsNum(price_change_pct), SlightBelow) THEN "slightly"
    ELSE IF ~Lt(AbsNum(price_change_pct), SignificantAbove) THEN "significantly"
    ELSE "moderately"

\* line 799
Magnitude(price_change_pct) ==
    IF Lt(AbsNum(price_change_pct), SlightBelow) THEN "slightly"
    ELSE IF Gt(AbsNum(price_change_pct), SignificantAbove) THEN "significantly"
    ELSE "moderately"

Max(S) == CHOOSE x \in S : \A y \in S : y <= x

Min(S) == CHOOSE x \in S : \A y \in S : x <= y

\* lines 782-817
_generate_price_summary(sd, ticker) ==
    IF Falsy(sd) \/ ~("data" \in DOMAIN sd) THEN None
    ELSE IF ~("today" \in DOMAIN sd["data"]) THEN None
    ELSE IF sd["data"]["today"] = <<>> THEN None
    ELSE
    LET today_data == sd["data"]["today"]
        current_price == today_data[Len(today_data)].Close
        open_price == today_data[1].Open
        price_change == current_price - open_price
        price_change_pct == ChangePct(price_change, open_price)
    IN  [ticker |-> ticker,
         direction |-> Direction(price_change),
         magnitude |-> Magnitude(price_change_pct),
         by |-> AbsNum(price_change_pct),
         current_price |-> current_price,
         open_price |-> open_price,
         day_low |-> Min({today_data[i].Low : i \in 1..Len(today_data)}),
         day_high |-> Max({today_data[i].High : i \in 1..Len(today_data)})]

MaxMove == 5

\* one row of the today series
TodayRow(open, close) ==
    [Open |-> open, Close |-> close,
     High |-> IF open > close THEN open ELSE close,
     Low |-> IF open > close THEN close ELSE open]

TodayRows ==
    {TodayRow(o, o + k) : o \in {50, 100, 200}, k \in (-MaxMove)..MaxMove}

TodaySecurityData ==
    {None, << >>, [ticker |-> "AAPL"], [data |-> << >>], [data |-> [today |-> <<>>]]}
        \cup {[data |-> [today |-> t]] : t \in UNION {[1..n -> TodayRows] : n \in 1..2}}

SummaryInit ==
    /\ news_items = None
    /\ news_analysis = NotCalled
    /\ security_data \in TodaySecurityData
    /\ correlation = NotCalled
    /\ price_summary = NotCalled
    /\ explanation = NotCalled

\* a call of _generate_price_summary(security_data, ticker)
PriceSummary ==
    /\ price_summary = NotCalled
    /\ \E ticker \in Tickers :
          price_summary' = [called |-> TRUE,
                            result |-> _generate_price_summary(security_data, ticker)]
    /\ UNCHANGED <<security_data, correlation, explanation, cacheVars, taVars, newsVars>>

NextSummary == PriceSummary

(***************************************************************************)
(* generate_explanation(security_data, news_analysis, ticker), lines       *)
(* 733-778, and the generators of its parts.  A part is None or a          *)
(* sentence.  The news summary is cut after the article count, and the     *)
(* market, sector and technical summaries after their heading.             *)
(***************************************************************************)
NewsPositiveAbove == 20
NewsNegativeBelow == -20
KeyFactorAbove == 30

\* str(n), n >= 0
RECURSIVE IntStr(_)
IntStr(n) == IF n < 10 THEN Digits[n + 1] ELSE IntStr(n \div 10) \o Digits[(n % 10) + 1]

\* f"{x:.2f}" for a float x >= 0 that is a number: the nearest hundredth, a tie
\* to the even one
Fixed2(x) ==
    LET h == (x.n * 100) \div x.d
        r == (x.n * 100) % x.d
        q == IF 2 * r > x.d \/ (2 * r = x.d /\ h % 2 = 1) THEN h + 1 ELSE h
    IN  IntStr(q \div 100) \o "." \o Pad2(q % 100)

\* lines 801-802: the sentence of the summary
PriceSentence(r) ==
    r.ticker \o " is " \o r.direction \o " " \o r.magnitude \o " by " \o Fixed2(r.by)
        \o "% today, currently trading at $" \o Fixed2(Num(r.current_price, 1)) \o "."
        \o " The stock opened at $" \o Fixed2(Num(r.open_price, 1))
        \o " and has ranged from $" \o Fixed2(Num(r.day_low, 1))
        \o " to $" \o Fixed2(Num(r.day_high, 1)) \o " during the session."

\* lines 821-850, the body of the try
NewsSummaryBody(na, ticker) ==
    IF Falsy(na) THEN Str("No significant news for " \o ticker \o " was found.")
    ELSE IF ~("sentiments" \in DOMAIN na)
              \/ na["sentiments"] = <<>>
    THEN Str("No significant news for " \o ticker \o " was found.")
    ELSE IF ~("average_sentiment" \in DOMAIN na)
    THEN Raised("KeyError: 'average_sentiment'")
    ELSE LET avg_sentiment == na["average_sentiment"]
             sentiment_desc == IF Gt(avg_sentiment, NewsPositiveAbove) THEN "positive"
                               ELSE IF Lt(avg_sentiment, NewsNegativeBelow) THEN "negative"
                               ELSE "neutral"
         IN  Str("Recent news sentiment for " \o ticker \o " is overall "
                 \o sentiment_desc \o " with "
                 \o IntStr(Len(na["sentiments"])) \o " articles")

\* lines 819-853
_generate_news_summary(na, ticker) == Try(NewsSummaryBody(na, ticker), None)

\* thresholds of the key takeaway, in tenths of a percent
MarketAbove == 10
SectorAbove == 15

\* The market context maps the name of an index to its figures, of which
\* the model keeps the change, in tenths of a percent.  The indices whose
\* value is a dict with a change (lines 865 and 991):
WithChange(market_context) ==
    {name \in DOMAIN market_context : "change_pct" \in DOMAIN market_context[name]}

\* lines 859-886, without the figures of the sentence
_generate_market_context(sd) ==
    IF ~("market_context" \in DOMAIN sd) THEN None
    ELSE IF Falsy(sd["market_context"]) THEN None
    ELSE
    LET context == sd["market_context"]
        up_count == Cardinality({n \in WithChange(context) : context[n].change_pct > 0})
        down_count == Cardinality({n \in WithChange(context) : context[n].change_pct < 0})
    IN  IF WithChange(context) = {} THEN None
        ELSE Str("Market Context: "
                 \o (IF up_count > down_count
                     THEN "The broader market is showing positive momentum today."
                     ELSE IF down_count > up_count
                     THEN "The broader market is trending lower today."
                     ELSE "Market sentiment is mixed today."))

\* security_data.get('info', {}).get('sector', None); "" stands for None
InfoSector(sd) ==
    IF "info" \in DOMAIN sd /\ "sector" \in DOMAIN sd["info"] THEN sd["info"]["sector"]
    ELSE ""

\* lines 895-921.  The sector context maps a sector to its change, in tenths
\* of a percent.  The figure of the sentence and the comparison with the
\* stock are left out.
_generate_sector_summary(sd) ==
    IF ~("sector_context" \in DOMAIN sd) THEN None
    ELSE IF Falsy(sd["sector_context"]) THEN None
    ELSE IF InfoSector(sd) # "" /\ InfoSector(sd) \in DOMAIN sd["sector_context"]
    THEN Str("Sector Performance: The " \o InfoSector(sd) \o " sector is "
             \o (IF sd["sector_context"][InfoSector(sd)] > 0 THEN "up" ELSE "down")
             \o " today.")
    ELSE None

\* sum(1 for signal, value in signals.items() if value == v)
SignalCount(signals, v) == Cardinality({f \in DOMAIN signals : signals[f] = v})

\* lines 943-948 with the ties given to the buyers
Verdict_ge(signals) ==
    LET buy_signals == SignalCount(signals, "buy")
        sell_signals == SignalCount(signals, "sell")
        neutral_signals == SignalCount(signals, "neutral")
    IN  IF buy_signals >= sell_signals /\ buy_signals >= neutral_signals THEN "bullish"
        ELSE IF sell_signals >= buy_signals /\ sell_signals >= neutral_signals THEN "bearish"
        ELSE "neutral"

\* lines 938-948
Verdict(signals) ==
    LET buy_signals == SignalCount(signals, "buy")
        sell_signals == SignalCount(signals, "sell")
        neutral_signals == SignalCount(signals, "neutral")
    IN  IF buy_signals > sell_signals /\ buy_signals > neutral_signals THEN "bullish"
        ELSE IF sell_signals > buy_signals /\ sell_signals > neutral_signals THEN "bearish"
        ELSE "neutral"

\* lines 930-966, for a technical analysis without 'rsi' and 'macd' entries
_generate_technical_summary(sd) ==
    IF ~("technical_analysis" \in DOMAIN sd) THEN None
    ELSE IF Falsy(sd["technical_analysis"]) THEN None
    ELSE IF ~("signals" \in DOMAIN sd["technical_analysis"]) THEN None
    ELSE IF Falsy(sd["technical_analysis"]["signals"]) THEN None
    ELSE Str("Technical Analysis: Technical indicators are showing "
             \o Verdict(sd["technical_analysis"]["signals"]) \o " signals.")

\* lines 976-982 with the price change starting at 0 in place of None
TodayChange_zero(sd) ==
    IF "data" \in DOMAIN sd /\ "today" \in DOMAIN sd["data"] /\ sd["data"]["today"] # <<>>
    THEN ChangePct(sd["data"]["today"][Len(sd["data"]["today"])].Close
                       - sd["data"]["today"][1].Open,
                   sd["data"]["today"][1].Open)
    ELSE Num(0, 1)

\* lines 976-982: price_change_pct, None without a today series
TodayChange(sd) ==
    IF "data" \in DOMAIN sd /\ "today" \in DOMAIN sd["data"] /\ sd["data"]["today"] # <<>>
    THEN ChangePct(sd["data"]["today"][Len(sd["data"]["today"])].Close
                       - sd["data"]["today"][1].Open,
                   sd["data"]["today"][1].Open)
    ELSE None

\* sum(market_changes)
RECURSIVE SumChanges(_, _)
SumChanges(context, names) ==
    IF names = {} THEN 0
    ELSE LET n == CHOOSE x \in names : TRUE
         IN  context[n].change_pct + SumChanges(context, names \ {n})

\* lines 988-994: the mean change of the indices, 0 without any
MarketTrend(sd) ==
    IF ~("market_context" \in DOMAIN sd) THEN Num(0, 1)
    ELSE LET context == sd["market_context"]
         IN  IF WithChange(context) = {} THEN Num(0, 1)
             ELSE Num(SumChanges(context, WithChange(context)),
                      Cardinality(WithChange(context)))

\* lines 997-1002: the change of the security's sector, 0 without one
SectorTrend(sd) ==
    IF ~("sector_context" \in DOMAIN sd) THEN Num(0, 1)
    ELSE IF InfoSector(sd) # "" /\ InfoSector(sd) \in DOMAIN sd["sector_context"]
    THEN Num(sd["sector_context"][InfoSector(sd)], 1)
    ELSE Num(0, 1)

\* str.replace('_', ' ')
RECURSIVE ReplaceUnderscores(_)
ReplaceUnderscores(s) ==
    IF s = "" THEN ""
    ELSE (IF CharAt(s, 1) = "_" THEN " " ELSE CharAt(s, 1))
             \o ReplaceUnderscores(SubSeq(s, 2, Len(s)))

\* (price_change_pct > 0 and x > 0) or (price_change_pct < 0 and x < 0)
Aligned(price_change_pct, x) ==
    \/ Gt(price_change_pct, 0) /\ Gt(x, 0)
    \/ Lt(price_change_pct, 0) /\ Lt(x, 0)

\* lines 1009-1041 with the market tried before the news
KeyFactor_marketFirst(price_change_pct, avg_sentiment, market_trend, sector_trend) ==
    IF Gt(AbsNum(market_trend), MarketAbove) /\ Aligned(price_change_pct, market_trend)
    THEN "market"
    ELSE IF Gt(AbsNum(avg_sentiment), KeyFactorAbove)
            /\ Aligned(price_change_pct, avg_sentiment)
    THEN "news"
    ELSE IF Gt(AbsNum(sector_trend), SectorAbove) /\ Aligned(price_change_pct, sector_trend)
    THEN "sector"
    ELSE "company"

\* lines 1009-1041: key_factor, for a price change that is a number
KeyFactor(price_change_pct, avg_sentiment, market_trend, sector_trend) ==
    IF Gt(AbsNum(avg_sentiment), KeyFactorAbove)
       /\ Aligned(price_change_pct, avg_sentiment)
    THEN "news"
    ELSE IF Gt(AbsNum(market_trend), MarketAbove) /\ Aligned(price_change_pct, market_trend)
    THEN "market"
    ELSE IF Gt(AbsNum(sector_trend), SectorAbove) /\ Aligned(price_change_pct, sector_trend)
    THEN "sector"
    ELSE "company"

\* lines 974-1058, the body of the try
TakeawayBody(sd, na, ticker) ==
    IF na = None THEN Raised("'NoneType' object has no attribute 'get'")
    ELSE
    LET price_change_pct == TodayChange(sd)
        avg_sentiment == DictGet(na, "average_sentiment", Num(0, 1))
        market_trend == MarketTrend(sd)
        sector_trend == SectorTrend(sd)
        topics == DictGet(na, "topics", <<>>)
        top_topics == Take(SortedDesc(topics, [i \in 1..Len(topics) |-> topics[i].count]), 1)
        earnings == \E i \in 1..Len(topics) :
                        topics[i].topic = "earnings" /\ topics[i].count > 0
        \* a test of lines 1009-1030 gets as far as price_change_pct > 0
        compared == \/ Gt(AbsNum(avg_sentiment), KeyFactorAbove)
                    \/ Gt(AbsNum(market_trend), MarketAbove)
                    \/ Gt(AbsNum(sector_trend), SectorAbove)
    IN  IF price_change_pct = None
        THEN (IF compared THEN Raised("'>' not supported between 'NoneType' and 'int'")
              ELSE None)
        ELSE
        LET key_factor == KeyFactor(price_change_pct, avg_sentiment, market_trend,
                                    sector_trend)
            factor_description ==
                IF key_factor = "news"
                THEN "recent " \o (IF Gt(avg_sentiment, 0) THEN "positive" ELSE "negative")
                        \o " news"
                        \o (IF top_topics # <<>> /\ top_topics[1].count > 0
                            THEN " related to " \o ReplaceUnderscores(top_topics[1].topic)
                            ELSE "")
                ELSE IF key_factor = "market"
                THEN "overall " \o (IF Gt(market_trend, 0) THEN "positive" ELSE "negative")
                        \o " market movement"
                ELSE IF key_factor = "sector"
                THEN InfoSector(sd) \o " sector "
                        \o (IF Gt(sector_trend, 0) THEN "strength" ELSE "weakness")
                ELSE IF earnings THEN "recent earnings or financial news"
                ELSE "company-specific factors"
            direction == IF Gt(price_change_pct, 0) THEN "gain" ELSE "decline"
        IN  Str("Key Takeaway: The primary driver behind " \o ticker \o "'s " \o direction
                \o " today appears to be " \o factor_description \o "."
                \o (IF key_factor = "news"
                    THEN " Investors should monitor for additional news developments."
                    ELSE IF key_factor = "market"
                    THEN " The stock is currently moving with the broader market trend."
                    ELSE IF key_factor = "sector"
                    THEN " Watch other stocks in the " \o InfoSector(sd)
                            \o " sector for similar patterns."
                    ELSE ""))

\* lines 972-1062
_generate_key_takeaway(sd, na, ticker) ==
    Try(TakeawayBody(sd, na, ticker), None)

\* "\n\n".join(parts)
RECURSIVE Join(_)
Join(parts) ==
    IF parts = <<>> THEN ""
    ELSE IF Len(parts) = 1 THEN parts[1].str
    ELSE parts[1].str \o "\n\n" \o Join(Tail(parts))

\* lines 743-770: what the six generators return, in the order of their calls
Parts(sd, na, ticker) ==
    LET price_summary_ == _generate_price_summary(sd, ticker)
    IN  <<IF price_summary_ = None THEN None ELSE Str(PriceSentence(price_summary_)),
          _generate_news_summary(na, ticker),
          _generate_market_context(sd),
          _generate_sector_summary(sd),
          _generate_technical_summary(sd),
          _generate_key_takeaway(sd, na, ticker)>>

\* "\n\n".join(parts) with the parts in the order in which they are written
JoinParts_reversed(parts) ==
    Join([i \in 1..Len(parts) |-> parts[Len(parts) + 1 - i]])

\* lines 741-773: the parts that are not None or empty, joined
JoinParts(parts) == Join(parts)

\* lines 736-773, the body of the try
ExplanationBody(sd, na, ticker) ==
    IF Falsy(sd)
    THEN Str("Unable to generate analysis for " \o ticker \o " due to missing market data.")
    ELSE Str(JoinParts(SelectSeq(Parts(sd, na, ticker),
                                 LAMBDA part : part # None /\ part.str # "")))

\* lines 733-778
generate_explanation(sd, na, ticker) ==
    Try(ExplanationBody(sd, na, ticker),
        Str("Analysis for " \o ticker \o " is currently unavailable. Please try again later."))

\* a news item whose entities are a list
BadItem ==
    ("title" :> "Apple recall") @@ ("polarity" :> -21) @@ ("entities" :> List(<<"AAPL">>))

EntryNews == {List(<<BadItem>>), ScenarioNews}

EntrySecurityData ==
    {[data |-> [week |-> Unindexed]],
     [data |-> [today |-> <<TodayRow(100, 97)>>, week |-> SeriesOf(<<1, 2>>)]]}

EntryInit ==
    /\ news_items \in EntryNews
    /\ news_analysis = NotCalled
    /\ security_data \in EntrySecurityData
    /\ correlation = NotCalled
    /\ price_summary = NotCalled
    /\ explanation = NotCalled

\* a call of generate_explanation on the analysis of the news, or on None
\* before there is one
Explain ==
    /\ explanation = NotCalled
    /\ \E ticker \in Tickers :
          LET news == IF news_analysis.called THEN news_analysis.result ELSE None
          IN  explanation' =
                  [called |-> TRUE, news |-> news, ticker |-> ticker,
                   result |-> generate_explanation(security_data, news, ticker)]
    /\ UNCHANGED <<security_data, correlation, price_summary, cacheVars, taVars, newsVars>>

NextNarrative == Explain

(***************************************************************************)
(* The arguments of generate_explanation for the narrative: security data  *)
(* with or without a today series, a market context, a sector context and  *)
(* a technical analysis, and a news analysis or None.                      *)
(***************************************************************************)
TodaySeries ==
    {<< >>, [today |-> <<>>], [today |-> <<TodayRow(100, 103)>>],
     [today |-> <<TodayRow(100, 97)>>], [today |-> <<TodayRow(100, 100)>>]}

\* changes of 1.1, -1.1 and 1.0 percent, two indices with a mean of 1.05
\* beside an entry that is not a dict of figures, and no entry
MarketContexts ==
    {<< >>,
     [market_context |-> ("S&P 500" :> [change_pct |-> 11])],
     [market_context |-> ("S&P 500" :> [change_pct |-> -11])],
     [market_context |-> ("S&P 500" :> [change_pct |-> 10])],
     [market_context |-> ("S&P 500" :> [change_pct |-> 12])
                            @@ ("Dow Jones" :> [change_pct |-> 9])
                            @@ ("VIX" :> [error |-> "no data"])]}

\* the security's sector at 1.6, -1.6 and 1.5 percent, and a context
\* without the security's sector
SectorContexts ==
    {[info |-> [shortName |-> "Apple"]],
     [info |-> [sector |-> "Technology"], sector_context |-> ("Technology" :> 16)],
     [info |-> [sector |-> "Technology"], sector_context |-> ("Technology" :> -16)],
     [info |-> [sector |-> "Technology"], sector_context |-> ("Technology" :> 15)],
     [info |-> [sector |-> "Technology"], sector_context |-> ("Energy" :> 16)]}

SignalValues == {"buy", "sell", "neutral"}

\* every signals map of the four families, the empty analysis and none
TechnicalAnalyses ==
    {<< >>, [technical_analysis |-> << >>]}
        \cup {[technical_analysis |-> [signals |-> sg]] : sg \in [Indicators -> SignalValues]}

NarrativeSecurityData ==
    {(("data" :> t) @@ m @@ sc) : t \in TodaySeries, m \in MarketContexts,
                                  sc \in SectorContexts}
        \cup {(("data" :> [today |-> <<TodayRow(100, 103)>>]) @@ ta) :
                 ta \in TechnicalAnalyses}

\* an analysis of one article with that average sentiment, in hundredths,
\* and those topic counts
Analysis(average, topics) ==
    [sentiments |-> <<[title |-> "Recall widens", sentiment |-> average]>>,
     average_sentiment |-> Num(average, 1),
     topics |-> topics]

NarrativeAnalyses ==
    {Analysis(a, <<>>) : a \in {-31, -30, 0, 30, 31}}
        \cup {Analysis(a, <<[topic |-> "earnings", count |-> 1]>>) : a \in {0, 31}}
        \cup {Analysis(-31, <<[topic |-> "market_trend", count |-> 2]>>),
              _get_empty_news_analysis,
              [sentiments |-> <<[title |-> "Recall widens", sentiment |-> 31]>>]}

NarrativeInit ==
    /\ news_items = None
    /\ news_analysis \in {NotCalled}
                            \cup {[called |-> TRUE, result |-> na] : na \in NarrativeAnalyses}
    /\ security_data \in NarrativeSecurityData
    /\ correlation = NotCalled
    /\ price_summary = NotCalled
    /\ explanation = NotCalled

\* the four public entry points, called by one client
NextEntry ==
    \/ \E ticker \in Tickers : AS_Lookup(1, ticker)
    \/ AS_Fetch(1)
    \/ AnalyzeNews
    \/ Correlate
    \/ Explain

(***************************************************************************)
(* Specifications.                                                         *)
(***************************************************************************)
Init == CacheInit /\ TAIdle /\ NewsIdle /\ CorrIdle

Next ==
    \/ \E c \in Callers, ticker \in Tickers : AS_Lookup(c, ticker)
    \/ \E c \in Callers : AS_Fetch(c)
    \/ Tick

\* analyze_security called by two callers, and the clock
Spec == Init /\ [][Next]_vars

SpecCache == Init /\ [][NextCache]_vars

\* _get_technical_analysis on every input of TAInit
InitTA == CacheInit /\ TAInit /\ NewsIdle /\ CorrIdle

InitNews == CacheInit /\ TAIdle /\ NewsInit /\ CorrIdle

\* analyze_news_impact on every list of NewsLists
SpecNews == InitNews /\ [][NextNews]_vars

InitCorr == CacheInit /\ TAIdle /\ CorrInit

InitSummary == CacheInit /\ TAIdle /\ SummaryInit

InitEntry == CacheInit /\ TAIdle /\ EntryInit

InitNarrative == CacheInit /\ TAIdle /\ NarrativeInit

\* generate_explanation on every security data and analysis of NarrativeInit
SpecNarrative == InitNarrative /\ [][NextNarrative]_vars

\* the public entry points on arguments and upstream outcomes that make them fail
SpecEntry == InitEntry /\ [][NextEntry]_vars

\* _generate_price_summary on every today series of TodaySecurityData
SpecSummary == InitSummary /\ [][NextSummary]_vars

\* compute_price_news_correlation on a news list or on its analysis
SpecCorr == InitCorr /\ [][NextCorr]_vars

SpecTA == InitTA /\ [][NextTA]_vars

InitStored == StoredInit /\ TAIdle /\ NewsIdle /\ CorrIdle

\* stores, lookups and clock advances on every cache of StoredCaches
SpecStored == InitStored /\ [][NextCache]_vars

(***************************************************************************)
(* Properties of the cache and of analyze_security.                        *)
(***************************************************************************)

\* the age, at the last lookup, of the entry that lookup found
LastGetFresh ==
    \E e \in lastGet.entry :
        /\ e.cache_time.kind = "datetime"
        /\ lastGet.at - e.cache_time.t < cache_expiry

\* C1: a lookup returns the stored value only if the key was stored and
\* now - stored_time < ttl; for a key never stored, or whose entry has
\* age >= ttl, it returns None.
C1_GetReturnsOnlyFresh ==
    /\ lastGet.val # None =>
          /\ LastGetFresh
          /\ \E e \in lastGet.entry : lastGet.val = e.cached_data
    /\ (lastGet.entry = {} \/ ~LastGetFresh) => lastGet.val = None

\* a lookup found an entry of age >= ttl and returned None
C1_Witness ==
    /\ lastGet.entry # {}
    /\ \E e \in lastGet.entry : lastGet.at - e.cache_time.t >= cache_expiry
    /\ lastGet.val = None

\* C2: once analyze_security(ticker) has succeeded, a later call for the
\* same ticker in the same hour bucket returns the stored result and makes
\* no upstream fetch.
C2_SameHourServedFromCache ==
    \A c \in Callers :
        call[c].prior # {} =>
            /\ pc[c] = "idle"
            /\ ret[c] \in call[c].prior
            /\ ~call[c].fetched

\* a call made at a later time of the hour than the fetch it is served from
C2_Witness ==
    \E c \in Callers :
        /\ pc[c] = "idle"
        /\ \E r \in call[c].prior : r.fetched_at < call[c].started /\ ret[c] = r

(***************************************************************************)
(* Properties of _get_technical_analysis.                                  *)
(***************************************************************************)

\* the number of rows of the week series; 0 when there is none
WeekLen == IF "week" \in DOMAIN price_data THEN Len(price_data["week"]) ELSE 0

LastClose == price_data["week"][WeekLen]

\* C3: a week series with fewer than 10 rows, empty or missing, gives the
\* empty bundle (no statement of the function before line 1193 can raise).
C3_FewRowsEmptyBundle ==
    (analysis.called /\ WeekLen < 10) => analysis.bundle = << >>

\* nine rows were analysed
C3_Witness ==
    /\ analysis.called
    /\ WeekLen = 9
    /\ analysis.bundle = << >>

\* C4: an indicator without enough history (14 rows for RSI, 20 for
\* Bollinger, 10 for SMA10) or whose computation fails is not in the bundle,
\* and is never there with an undefined value.
C4_InsufficientHistoryOmitted ==
    analysis.called =>
        LET b == analysis.bundle
        IN  /\ "rsi" \in DOMAIN b =>
                  /\ WeekLen >= 14
                  /\ "rsi" \notin raises
                  /\ b["rsi"].k = "num"
            /\ "bollinger" \in DOMAIN b =>
                  /\ WeekLen >= 20
                  /\ "bollinger" \notin raises
                  /\ b["bollinger"].upper.k = "band"
                  /\ b["bollinger"].lower.k = "band"
            /\ "sma" \in DOMAIN b =>
                  /\ WeekLen >= 10
                  /\ "sma" \notin raises
                  /\ b["sma"].sma10.k = "num"
            /\ "signals" \in DOMAIN b =>
                  /\ "rsi" \notin DOMAIN b => b["signals"].rsi = "neutral"
                  /\ "bollinger" \notin DOMAIN b => b["signals"].bollinger = "neutral"
                  /\ "sma" \notin DOMAIN b => b["signals"].sma = "neutral"

\* C5: an rsi in the bundle is a number between 0 and 100.
C5_RSIWithinRange ==
    (analysis.called /\ "rsi" \in DOMAIN analysis.bundle) =>
        LET rsi == analysis.bundle["rsi"]
        IN  /\ rsi.k = "num"
            /\ 0 <= rsi.n
            /\ rsi.n <= 100 * rsi.d

\* the last close is strictly above (side = 1) or strictly below (side = -1)
\* the mean of the last 20 closes by more than twice their sample standard
\* deviation: with x = 20 c - S,  x / 20 > 2 sqrt(V / 380)
BeyondBand(side) ==
    /\ WeekLen >= 20
    /\ LET win == LastRows(price_data["week"], 20)
           S == SumSeq(win)
           V == 20 * SumSeq([i \in 1..20 |-> win[i] * win[i]]) - S * S
           x == side * (20 * LastClose - S)
       IN  x > 0 /\ 19 * x * x > 80 * V

\* C6: the Bollinger signal is sell iff the last close is strictly above
\* the upper band, buy iff strictly below the lower band, neutral otherwise.
C6_BollingerSignal ==
    (analysis.called /\ "bollinger" \in DOMAIN analysis.bundle) =>
        LET signal == analysis.bundle["bollinger"].signal
        IN  /\ signal = "sell" <=> BeyondBand(1)
            /\ signal = "buy" <=> BeyondBand(-1)
            /\ signal = "neutral" <=> (~BeyondBand(1) /\ ~BeyondBand(-1))

\* a close above the upper band of 20 rows was analysed
C6_Witness ==
    /\ analysis.called
    /\ "bollinger" \in DOMAIN analysis.bundle
    /\ WeekLen >= 20
    /\ analysis.bundle["bollinger"].signal = "sell"

(***************************************************************************)
(* analyze_news_impact: what a finished call returned for its argument.    *)
(***************************************************************************)
NewsResult == news_analysis.result

\* the valid items of the argument, in order
ValidInput == IF Falsy(news_items) THEN <<>> ELSE SelectSeq(news_items.list, ValidItem)

\* the number of valid items of the argument whose polarity satisfies Test
PolarityCount(Test(_)) ==
    Cardinality({i \in 1..Len(ValidInput) : Test(ValidInput[i]["polarity"])})

\* C7: every sentiment record carries the category of its polarity, with
\* polarity exactly 0.2 or -0.2 neutral, above 0.2 positive and below -0.2
\* negative, and each sentiment_distribution counter equals the number of
\* valid items of that category.
C7_CategoryBoundariesExact ==
    news_analysis.called =>
        /\ \A i \in 1..Len(NewsResult.sentiments) :
              LET r == NewsResult.sentiments[i]
              IN  /\ r.sentiment = ValidInput[i]["polarity"]
                  /\ (r.sentiment = 20 \/ r.sentiment = -20) => r.sentiment_category = "neutral"
                  /\ r.sentiment > 20 <=> r.sentiment_category = "positive"
                  /\ r.sentiment < -20 <=> r.sentiment_category = "negative"
        /\ Len(NewsResult.sentiments) = Len(ValidInput)
        /\ NewsResult.sentiment_distribution.positive = PolarityCount(LAMBDA x : x > 20)
        /\ NewsResult.sentiment_distribution.negative = PolarityCount(LAMBDA x : x < -20)
        /\ NewsResult.sentiment_distribution.neutral =
               PolarityCount(LAMBDA x : x >= -20 /\ x <= 20)

\* a call whose valid items have polarity 0.2, -0.2 and one beyond a boundary
C7_Witness ==
    /\ news_analysis.called
    /\ \E i, j, k \in 1..Len(ValidInput) :
          /\ ValidInput[i]["polarity"] = 20
          /\ ValidInput[j]["polarity"] = -20
          /\ ValidInput[k]["polarity"] \in {21, -21}
    /\ NewsResult.sentiment_distribution.neutral = 2

\* the item has no title or an empty one
TitleMissingOrEmpty(item) ==
    item = << >> \/ ~("title" \in DOMAIN item) \/ item["title"] = ""

\* the items of the argument that have a title
Titled == SelectSeq(news_items.list, LAMBDA item : ~TitleMissingOrEmpty(item))

\* C12: on a list whose items all have a missing or empty title the call
\* returns the fixed empty structure (average_sentiment 0, label Neutral, zero
\* distribution counts, empty sentiments, keywords and news_items), and on any
\* list the items without a title contribute to no count.
C12_UntitledItemsGiveEmptyAnalysis ==
    (news_analysis.called /\ news_items # None) =>
        /\ Titled = <<>> =>
              /\ NewsResult.average_sentiment = Num(0, 1)
              /\ NewsResult.sentiment_label = "Neutral"
              /\ NewsResult.sentiment_distribution
                     = [positive |-> 0, negative |-> 0, neutral |-> 0]
              /\ NewsResult.sentiments = <<>>
              /\ NewsResult.keywords = <<>>
              /\ NewsResult.news_items = <<>>
        /\ Len(NewsResult.sentiments) = Len(Titled)
        /\ Len(NewsResult.news_items) = Len(Titled)
        /\ NewsResult.sentiment_distribution.positive
               + NewsResult.sentiment_distribution.negative
               + NewsResult.sentiment_distribution.neutral = Len(Titled)
        /\ \A i \in 1..Len(Titled) : NewsResult.sentiments[i].title = Titled[i]["title"]

\* the call on the list of one item titled ""
C12_Witness ==
    /\ news_analysis.called
    /\ news_items # None
    /\ Len(news_items.list) = 1
    /\ "title" \in DOMAIN news_items.list[1]
    /\ news_items.list[1]["title"] = ""
    /\ NewsResult = _get_empty_news_analysis

\* the words the valid items of the argument add to the keyword counter, in order
WordStream == AllWords(ValidInput)

\* the accumulated count of a keyword
Frequency(w) == Len(SelectSeq(WordStream, LAMBDA x : x = w))

\* the position at which a keyword is first met
FirstSeen(w) ==
    LET ws == WordStream
    IN  CHOOSE i \in 1..Len(ws) : ws[i] = w /\ \A j \in 1..(i - 1) : ws[j] # w

DistinctWords == LET ws == WordStream IN {ws[i] : i \in 1..Len(ws)}

\* C8 as stated: the keywords list has at most 20 entries and each keyword's
\* accumulated count is strictly greater than the count of the keyword after it.
C8_KeywordsStrictlyDescending ==
    news_analysis.called =>
        /\ Len(NewsResult.keywords) <= 20
        /\ \A i \in 1..(Len(NewsResult.keywords) - 1) :
              Frequency(NewsResult.keywords[i]) > Frequency(NewsResult.keywords[i + 1])

\* C8, amended: the keywords list has at most 20 entries, no keyword twice, and
\* is ordered by non-increasing accumulated count; keywords of equal count stand
\* in the order in which they were first met, and no omitted word has a greater
\* count than a listed one.
C8_KeywordsDescending ==
    news_analysis.called =>
        LET kw == NewsResult.keywords
            listed == {kw[i] : i \in 1..Len(kw)}
        IN  /\ Len(kw) <= 20
            /\ Len(kw) = (IF Cardinality(DistinctWords) < 20
                          THEN Cardinality(DistinctWords) ELSE 20)
            /\ Cardinality(listed) = Len(kw)
            /\ listed \subseteq DistinctWords
            /\ \A i \in 1..(Len(kw) - 1) :
                  /\ Frequency(kw[i]) >= Frequency(kw[i + 1])
                  /\ Frequency(kw[i]) = Frequency(kw[i + 1])
                         => FirstSeen(kw[i]) < FirstSeen(kw[i + 1])
            /\ \A w \in DistinctWords \ listed : Frequency(w) <= Frequency(kw[Len(kw)])

\* a call that met more than 20 distinct words, some more often than others,
\* and returned 20 keywords of which two have the same count
C8_Witness ==
    /\ news_analysis.called
    /\ Cardinality(DistinctWords) > 20
    /\ Len(NewsResult.keywords) = 20
    /\ Frequency(NewsResult.keywords[1]) > Frequency(NewsResult.keywords[20])
    /\ \E i \in 1..19 :
          Frequency(NewsResult.keywords[i]) = Frequency(NewsResult.keywords[i + 1])
    /\ FirstSeen(NewsResult.keywords[1]) > 1

\* the lowercase words of three or more characters of the valid items'
\* content that are not stop words, in order
RECURSIVE TokenStream(_)
TokenStream(items) ==
    IF items = <<>> THEN <<>>
    ELSE SelectSeq(FindWords(Lower(Content(Head(items)))), LAMBDA w : w \notin StopWords)
             \o TokenStream(Tail(items))

\* C20: the keywords are the 20 most frequent of the words of three or more
\* letters (hyphens allowed) of the valid items' content that are not stop
\* words, every such word being counted, by non-increasing count and, among
\* equal counts, in the order in which the words were first met.
C20_EveryWordOfThreeLettersCounted ==
    news_analysis.called =>
        LET ts == TokenStream(ValidInput)
            kw == NewsResult.keywords
            listed == {kw[i] : i \in 1..Len(kw)}
            distinct == {ts[i] : i \in 1..Len(ts)}
            Count(w) == Len(SelectSeq(ts, LAMBDA x : x = w))
            First(w) == CHOOSE i \in 1..Len(ts) : ts[i] = w /\ \A j \in 1..(i - 1) : ts[j] # w
        IN  /\ Len(kw) = (IF Cardinality(distinct) < MaxKeywords
                          THEN Cardinality(distinct) ELSE MaxKeywords)
            /\ Cardinality(listed) = Len(kw)
            /\ listed \subseteq distinct
            /\ \A i \in 1..(Len(kw) - 1) :
                  /\ Count(kw[i]) >= Count(kw[i + 1])
                  /\ Count(kw[i]) = Count(kw[i + 1]) => First(kw[i]) < First(kw[i + 1])
            /\ \A w \in distinct \ listed : Count(w) <= Count(kw[Len(kw)])

(***************************************************************************)
(* compute_price_news_correlation: what a finished call returned.          *)
(***************************************************************************)
CorrResult == correlation.result

\* the selected prices and the negative-news counts of the rows of the result
RowPrices == [i \in 1..Len(CorrResult.data) |-> CorrResult.data[i].price]

RowNegatives == [i \in 1..Len(CorrResult.data) |-> CorrResult.data[i].negative_news]

AllEqual(xs) == \A i, j \in 1..Len(xs) : xs[i] = xs[j]

AllZero(xs) == \A i \in 1..Len(xs) : xs[i] = 0

\* the coefficient must be null by the claim's three cases
MustBeNull == Len(RowPrices) < 2 \/ AllEqual(RowPrices) \/ AllZero(RowNegatives)

\* num / sqrt(den2) lies in [-1, 1]
InUnitRange(c) == c.den2 > 0 /\ c.num * c.num <= c.den2

\* C9 as stated: the coefficient is null whenever fewer than 2 price points
\* exist, all selected prices are equal or all negative-news counts are zero,
\* and in every other case it is non-null and lies in [-1, 1].
C9_CoefficientNullOrInRange ==
    correlation.called =>
        IF MustBeNull
        THEN CorrResult.correlation_coefficient = None
        ELSE /\ CorrResult.correlation_coefficient # None
             /\ InUnitRange(CorrResult.correlation_coefficient)

\* C9, amended: the coefficient is null in the three cases; in every other
\* case it is null exactly when the primary routine raised and the
\* negative-news counts are all equal, it is 0 when the primary routine returned
\* and the counts are all equal, and whenever it is non-null it lies in [-1, 1].
C9_CoefficientNullOrInRangeUnlessFallbackDegenerate ==
    correlation.called =>
        IF MustBeNull
        THEN CorrResult.correlation_coefficient = None
        ELSE /\ CorrResult.correlation_coefficient = None
                    <=> (correlation.primary_raises /\ AllEqual(RowNegatives))
             /\ CorrResult.correlation_coefficient # None
                    => InUnitRange(CorrResult.correlation_coefficient)
             /\ (~correlation.primary_raises /\ AllEqual(RowNegatives))
                    => CorrResult.correlation_coefficient.num = 0

\* a call on prices that differ and counts that differ, in which the primary
\* routine raised and the manual formula gave a negative coefficient
C9_Witness ==
    /\ correlation.called
    /\ ~MustBeNull
    /\ ~AllEqual(RowNegatives)
    /\ correlation.primary_raises
    /\ CorrResult.correlation_coefficient # None
    /\ CorrResult.correlation_coefficient.num < 0

(***************************************************************************)
(* _generate_price_summary: what a finished call returned.                 *)
(***************************************************************************)
Today == security_data["data"]["today"]

\* the series the summary is made from exists
HasToday ==
    /\ ~Falsy(security_data)
    /\ "data" \in DOMAIN security_data
    /\ "today" \in DOMAIN security_data["data"]
    /\ Today # <<>>

\* 100 times the change from the first open to the last close, and the open:
\* |change%| is AbsMove / FirstOpen
AbsMove == Abs(100 * (Today[Len(Today)].Close - Today[1].Open))

FirstOpen == Today[1].Open

\* C13: the magnitude is slightly iff |change%| < 1, significantly iff
\* |change%| > 3 and moderately otherwise, so |change%| exactly 3 and exactly 1
\* give moderately; the direction is down when the close is below the open.
C13_MagnitudeBoundaries ==
    (price_summary.called /\ HasToday) =>
        /\ price_summary.result # None
        /\ price_summary.result.magnitude = "slightly" <=> AbsMove < FirstOpen
        /\ price_summary.result.magnitude = "significantly" <=> AbsMove > 3 * FirstOpen
        /\ price_summary.result.magnitude = "moderately"
               <=> (AbsMove >= FirstOpen /\ AbsMove <= 3 * FirstOpen)
        /\ AbsMove = 3 * FirstOpen => price_summary.result.magnitude = "moderately"
        /\ AbsMove = FirstOpen => price_summary.result.magnitude = "moderately"
        /\ Today[Len(Today)].Close < FirstOpen => price_summary.result.direction = "down"
        /\ Today[Len(Today)].Close > FirstOpen => price_summary.result.direction = "up"

\* the call on open 100 and last close 97
C13_Witness ==
    /\ price_summary.called
    /\ HasToday
    /\ FirstOpen = 100
    /\ Today[Len(Today)].Close = 97
    /\ price_summary.result.direction = "down"
    /\ price_summary.result.magnitude = "moderately"

RECURSIVE GCD(_, _)
GCD(a, b) == IF b = 0 THEN a ELSE GCD(b, a % b)

Sign(x) == IF x > 0 THEN 1 ELSE IF x < 0 THEN -1 ELSE 0

\* the sign of num / sqrt(den2) and its square in lowest terms
Value(c) ==
    LET g == GCD(c.num * c.num, c.den2)
    IN  [sign |-> Sign(c.num), square |-> <<(c.num * c.num) \div g, c.den2 \div g>>]

\* the coefficient the routine that was not taken gives for the rows
OtherRoutine ==
    IF correlation.primary_raises THEN PrimaryCoefficient(RowPrices, RowNegatives)
    ELSE FallbackCoefficient(RowPrices, RowNegatives)

\* C11: for prices and negative-news counts that pass the preconditions and
\* both vary, the manual formula and the primary routine give the same
\* coefficient, whichever of the two the call took.
C11_FallbackAgreesWithPrimary ==
    (correlation.called /\ ~MustBeNull /\ ~AllEqual(RowNegatives)) =>
        LET other == OtherRoutine
            manual == FallbackCoefficient(RowPrices, RowNegatives)
            primary == PrimaryCoefficient(RowPrices, RowNegatives)
        IN  /\ CorrResult.correlation_coefficient # None
            /\ other # None
            /\ Value(CorrResult.correlation_coefficient) = Value(other)
            /\ Value(manual) = Value(primary)

\* the call on the ten closes 100,101,99,102,103,101,104,105,103,106 and the
\* counts 0,1,2,0,0,1,0,0,1,0, taken through the manual formula
C11_Witness ==
    /\ correlation.called
    /\ correlation.primary_raises
    /\ Len(CorrResult.data) = 10
    /\ RowPrices = ScenarioCloses
    /\ RowNegatives = <<0, 1, 2, 0, 0, 1, 0, 0, 1, 0>>
    /\ CorrResult.correlation_coefficient = Coefficient(-900, 1998000)

FourKeys == {"error", "correlation_coefficient", "days_analyzed", "data"}

\* a precondition of the call is missing: no security data, no news (the
\* argument is None or empty), or no week, month or year series with rows
PreconditionMissing ==
    \/ security_data = None
    \/ security_data = << >>
    \/ ~("data" \in DOMAIN security_data)
    \/ correlation.news = None
    \/ correlation.news = << >>
    \/ correlation.news = List(<<>>)
    \/ \A period \in {"week", "month", "year"} :
          period \in DOMAIN security_data["data"] => security_data["data"][period] = <<>>

\* the call ended in the catch-all handler
CaughtAll ==
    /\ CorrResult.error # None
    /\ SubSeq(CorrResult.error.str, 1, 5) = "Error"

\* C14: every value the call returns has the four keys error,
\* correlation_coefficient, days_analyzed and data, also the value of the
\* catch-all handler; when a precondition is missing, and on the catch-all
\* path, error is a string, the coefficient is null, days_analyzed is 0 and
\* data is empty.
C14_ResultAlwaysWellFormed ==
    correlation.called =>
        /\ DOMAIN CorrResult = FourKeys
        /\ (PreconditionMissing \/ CaughtAll) =>
              /\ CorrResult.error # None
              /\ Len(CorrResult.error.str) > 0
              /\ CorrResult.correlation_coefficient = None
              /\ CorrResult.days_analyzed = 0
              /\ CorrResult.data = <<>>

\* a call with news and a price series whose rows carry no dates, which ended
\* in the catch-all handler
C14_Witness ==
    /\ correlation.called
    /\ ~PreconditionMissing
    /\ DOMAIN CorrResult = FourKeys
    /\ CaughtAll
    /\ CorrResult.data = <<>>

\* security data is present: the argument is a dict with a 'data' entry
SecurityDataPresent == ~Falsy(security_data) /\ "data" \in DOMAIN security_data

\* the call got past the checks of its two arguments
ArgumentsGiven == SecurityDataPresent /\ ~Falsy(correlation.news)

Priority == <<"week", "month", "year">>

\* the series of that priority is in the data and has rows
Usable(i) ==
    /\ Priority[i] \in DOMAIN security_data["data"]
    /\ Len(security_data["data"][Priority[i]]) > 0

\* the closes of the last rows of a series, at most ten
RecentCloses(series) ==
    LET n == IF Len(series) < 10 THEN Len(series) ELSE 10
    IN  [k \in 1..n |-> series[Len(series) - n + k].Close]

\* C21: the series analysed is the first of week, month, year that is present
\* and not empty (a later one only if every earlier one is missing or empty),
\* and with none the result carries error 'No historical price data available'.
C21_SeriesPriority ==
    (correlation.called /\ ArgumentsGiven) =>
        IF \E i \in 1..3 : Usable(i)
        THEN LET first == CHOOSE i \in 1..3 : Usable(i) /\ \A j \in 1..(i - 1) : ~Usable(j)
             IN  /\ CorrResult.error # Str("No historical price data available")
                 /\ ~CaughtAll =>
                        /\ CorrResult.error = None
                        /\ RowPrices = RecentCloses(security_data["data"][Priority[first]])
        ELSE /\ CorrResult.error = Str("No historical price data available")
             /\ CorrResult.days_analyzed = 0
             /\ CorrResult.data = <<>>

\* the month series was analysed beside a year series of other closes,
\* there being no week series
C21_Witness ==
    /\ correlation.called
    /\ ArgumentsGiven
    /\ ~Usable(1) /\ Usable(2) /\ Usable(3)
    /\ CorrResult.error = None
    /\ RowPrices = <<2, 1>>
    /\ RowPrices # RecentCloses(security_data["data"]["year"])

\* the call was made on an analysis, not on a raw list
OnAnalysis == ~IsList(correlation.news)

\* the dated items the call counted
CountedItems ==
    SelectSeq(IF OnAnalysis THEN correlation.news["sentiments"] ELSE correlation.news.list,
              Dated)

\* the call returned rows: it had its arguments and a series, and did not
\* end in the catch-all handler
SuccessPath ==
    /\ correlation.called
    /\ ArgumentsGiven
    /\ \E i \in 1..3 : Usable(i)
    /\ ~CaughtAll

\* the series the call analysed
Selected ==
    security_data["data"][Priority[CHOOSE i \in 1..3 :
                                      Usable(i) /\ \A j \in 1..(i - 1) : ~Usable(j)]]

\* C22: on the success path the result has one tuple for each of the most
\* recent min(10, n) rows of the selected series, in their order, with the
\* row's date and close; days_analyzed = len(data) <= 10; and a row on whose
\* date no news item was grouped has total, negative, neutral and positive
\* counts of zero.
C22_OneTuplePerRecentRow ==
    SuccessPath =>
        LET selected == Selected
            n == Len(selected)
            m == IF n < 10 THEN n ELSE 10
            data == CorrResult.data
            counted == CountedItems
            dates == {DateStr(counted[i]["timestamp"]) : i \in 1..Len(counted)}
        IN  /\ CorrResult.days_analyzed = Len(data)
            /\ Len(data) = m
            /\ Len(data) <= 10
            /\ \A k \in 1..m :
                  /\ data[k].date = strftime(selected[n - m + k].index)
                  /\ data[k].price = selected[n - m + k].Close
                  /\ data[k].date \notin dates
                         => /\ data[k].total_news = 0
                            /\ data[k].negative_news = 0
                            /\ data[k].neutral_news = 0
                            /\ data[k].positive_news = 0

\* a series of eleven rows gave ten tuples, the first for the second row,
\* one of them with news and one without
C22_Witness ==
    /\ SuccessPath
    /\ Len(Selected) = 11
    /\ CorrResult.days_analyzed = 10
    /\ CorrResult.data[1].date = strftime(Selected[2].index)
    /\ CorrResult.data[1].price # Selected[1].Close
    /\ \E k \in 1..10 : CorrResult.data[k].total_news > 0
    /\ \E k \in 1..10 : CorrResult.data[k].total_news = 0

\* the text before the first space or T of a timestamp, all of it without one
RECURSIVE DatePart(_)
DatePart(timestamp) ==
    IF timestamp = "" \/ CharAt(timestamp, 1) \in {" ", "T"} THEN ""
    ELSE CharAt(timestamp, 1) \o DatePart(SubSeq(timestamp, 2, Len(timestamp)))

\* the calendar date of an item: the first 10 characters of that text
DateKey(item) ==
    LET part == DatePart(item["timestamp"])
    IN  SubSeq(part, 1, IF Len(part) < 10 THEN Len(part) ELSE 10)

\* the items the call was given
GivenItems == IF OnAnalysis THEN correlation.news["sentiments"] ELSE correlation.news.list

\* the given items that carry a timestamp with a date of 10 characters
Usables ==
    SelectSeq(GivenItems,
              LAMBDA item : /\ "timestamp" \in DOMAIN item
                            /\ Len(DateKey(item)) = 10)

\* C23: an item is grouped under the first 10 characters of its timestamp's
\* date, the same key for a space-delimited and a T-delimited timestamp of one
\* day, and an item without a timestamp or with a date shorter than 10
\* characters is counted nowhere: each row's total is the number of items
\* whose date is the row's.
C23_GroupedByCalendarDate ==
    SuccessPath =>
        \A k \in 1..Len(CorrResult.data) :
            CorrResult.data[k].total_news =
                Len(SelectSeq(Usables,
                              LAMBDA item : DateKey(item) = CorrResult.data[k].date))

\* the sum of the total_news of the rows
RECURSIVE TotalNews(_)
TotalNews(data) ==
    IF data = <<>> THEN 0 ELSE Head(data).total_news + TotalNews(Tail(data))

\* C29: in every row of the result total_news is the sum of negative_news,
\* neutral_news and positive_news, and the total_news of all rows together
\* are no more than the given items that carry a timestamp with a date of at
\* least 10 characters.
C29_TotalIsSumOfBuckets ==
    SuccessPath =>
        /\ \A k \in 1..Len(CorrResult.data) :
              CorrResult.data[k].total_news =
                  CorrResult.data[k].negative_news + CorrResult.data[k].neutral_news
                      + CorrResult.data[k].positive_news
        /\ TotalNews(CorrResult.data) <= Len(CountedItems)

\* the sentiment category the classifier of analyze_news_impact gives an item
CategoryOf(item) ==
    IF OnAnalysis THEN item["sentiment_category"] ELSE Categorize(item["polarity"])

\* the number of counted items of that day and that category
InCategory(date, category) ==
    Len(SelectSeq(CountedItems,
                  LAMBDA item : DateStr(item["timestamp"]) = date
                                   /\ CategoryOf(item) = category))

\* C15: the per-day bucket an item is counted in equals its sentiment
\* category (negative iff polarity < -0.2, positive iff polarity > 0.2, else
\* neutral): each row's negative, neutral and positive counts are the numbers
\* of that day's items of that category.
C15_SameThresholdsAsClassifier ==
    (correlation.called /\ correlation.news # None /\ correlation.news # << >>) =>
        \A i \in 1..Len(CorrResult.data) :
            LET row == CorrResult.data[i]
            IN  /\ row.negative_news = InCategory(row.date, "negative")
                /\ row.neutral_news = InCategory(row.date, "neutral")
                /\ row.positive_news = InCategory(row.date, "positive")

(***************************************************************************)
(* generate_explanation: what a finished call returned for its arguments.  *)
(***************************************************************************)
Explanation == explanation.result.str

\* the security data has a today series with rows
HasTodayRows ==
    /\ "data" \in DOMAIN security_data
    /\ "today" \in DOMAIN security_data["data"]
    /\ Len(security_data["data"]["today"]) > 0

\* the day's move: the last close less the first open
Move ==
    LET today == security_data["data"]["today"]
    IN  today[Len(today)].Close - today[1].Open

\* the average sentiment of the analysis as the fraction n / d of hundredths;
\* 0 without the entry
Sentiment ==
    IF "average_sentiment" \in DOMAIN explanation.news
    THEN explanation.news["average_sentiment"]
    ELSE Num(0, 1)

\* the changes of the indices of the market context, in tenths of a percent
IndexChanges ==
    IF "market_context" \in DOMAIN security_data
    THEN LET mc == security_data["market_context"]
         IN  {<<name, mc[name].change_pct>> :
                 name \in {x \in DOMAIN mc : "change_pct" \in DOMAIN mc[x]}}
    ELSE {}

RECURSIVE Total(_)
Total(pairs) ==
    IF pairs = {} THEN 0
    ELSE LET p == CHOOSE x \in pairs : TRUE IN p[2] + Total(pairs \ {p})

\* the change of the security's own sector, in tenths of a percent; 0 when
\* the security has no sector or the context does not hold it
OwnSectorChange ==
    IF /\ "sector_context" \in DOMAIN security_data
       /\ "info" \in DOMAIN security_data
       /\ "sector" \in DOMAIN security_data["info"]
       /\ security_data["info"]["sector"] \in DOMAIN security_data["sector_context"]
    THEN security_data["sector_context"][security_data["info"]["sector"]]
    ELSE 0

\* x and y are both above zero or both below
SameSign(x, y) == (x > 0 /\ y > 0) \/ (x < 0 /\ y < 0)

\* the conditions of the three factors: |avg sentiment| > 0.3,
\* |mean market change| > 1.0 and |sector change| > 1.5, each with the sign
\* of the move
NewsDrives == Abs(Sentiment.n) > 30 * Sentiment.d /\ SameSign(Sentiment.n, Move)

MarketDrives ==
    /\ IndexChanges # {}
    /\ Abs(Total(IndexChanges)) > 10 * Cardinality(IndexChanges)
    /\ SameSign(Total(IndexChanges), Move)

SectorDrives == Abs(OwnSectorChange) > 15 /\ SameSign(OwnSectorChange, Move)

EarningsFired ==
    /\ "topics" \in DOMAIN explanation.news
    /\ \E i \in 1..Len(explanation.news["topics"]) :
          /\ explanation.news["topics"][i].topic = "earnings"
          /\ explanation.news["topics"][i].count > 0

\* the factor the explanation names, by the words that follow "appears to be"
Named(factor) ==
    IF factor = "news"
    THEN \/ Contains(Explanation, "appears to be recent positive news")
         \/ Contains(Explanation, "appears to be recent negative news")
    ELSE IF factor = "market" THEN Contains(Explanation, "appears to be overall ")
    ELSE IF factor = "sector" THEN Contains(Explanation, " sector strength.")
                                      \/ Contains(Explanation, " sector weakness.")
    ELSE IF factor = "earnings"
    THEN Contains(Explanation, "appears to be recent earnings or financial news.")
    ELSE Contains(Explanation, "appears to be company-specific factors.")

Factors == {"news", "market", "sector", "earnings", "company"}

\* C24: with a price move and an analysis, the takeaway names exactly one
\* factor: news if |avg sentiment| > 0.3 with the sign of the move, else the
\* market if |mean market change| > 1.0 with that sign, else the sector if
\* |sector change| > 1.5 with that sign, else company-specific factors, which
\* read "earnings or financial news" iff the earnings topic count is above 0.
C24_OneFactorInPriorityOrder ==
    (explanation.called /\ ~Falsy(security_data) /\ HasTodayRows /\ explanation.news # None) =>
        LET factor == IF NewsDrives THEN "news"
                      ELSE IF MarketDrives THEN "market"
                      ELSE IF SectorDrives THEN "sector"
                      ELSE IF EarningsFired THEN "earnings"
                      ELSE "company"
        IN  /\ Contains(Explanation, "Key Takeaway: ")
            /\ \A f \in Factors : Named(f) <=> f = factor

\* the market was named although the news was strong, because the news had
\* the other sign, and although the sector moved with the price as well
C24_Witness ==
    /\ explanation.called
    /\ HasTodayRows
    /\ explanation.news # None
    /\ Named("market")
    /\ Abs(Sentiment.n) > 30 * Sentiment.d
    /\ ~NewsDrives
    /\ SectorDrives

\* the security data carries the signals of the four families
HasSignals ==
    /\ ~Falsy(security_data)
    /\ "technical_analysis" \in DOMAIN security_data
    /\ "signals" \in DOMAIN security_data["technical_analysis"]

\* the number of families whose signal is v
Votes(v) ==
    Cardinality({f \in Indicators : security_data["technical_analysis"]["signals"][f] = v})

\* the verdict the explanation gives
Shows(verdict) == Contains(Explanation, "are showing " \o verdict \o " signals.")

\* C25: the technical summary's verdict is bullish iff there are strictly
\* more buy signals than sell signals and than neutral signals, bearish iff
\* there are strictly more sell signals than each of the others, and neutral
\* otherwise, so in every tie.
C25_MajorityVote ==
    (explanation.called /\ HasSignals) =>
        /\ Shows("bullish") <=> (Votes("buy") > Votes("sell") /\ Votes("buy") > Votes("neutral"))
        /\ Shows("bearish") <=> (Votes("sell") > Votes("buy") /\ Votes("sell") > Votes("neutral"))
        /\ Shows("neutral") <=>
              ~(\/ Votes("buy") > Votes("sell") /\ Votes("buy") > Votes("neutral")
                \/ Votes("sell") > Votes("buy") /\ Votes("sell") > Votes("neutral"))

\* two buy signals tied with two sell signals gave a neutral verdict
C25_Witness ==
    /\ explanation.called
    /\ HasSignals
    /\ Votes("buy") = 2
    /\ Votes("sell") = 2
    /\ Shows("neutral")
    /\ ~Shows("bullish")

\* the words by which each of the six paragraphs is known, in the order of
\* the generators: price, news, market, sector, technical, key takeaway
Marks ==
    <<{" today, currently trading at $"},
      {"Recent news sentiment for ", "No significant news for "},
      {"Market Context: "},
      {"Sector Performance: "},
      {"Technical Analysis: "},
      {"Key Takeaway: "}>>

\* where the paragraph of generator g is in the explanation; 0 when it is
\* not there
Place(g) ==
    LET at == {i \in 1..Len(Explanation) :
                  \E mark \in Marks[g] :
                      /\ i + Len(mark) - 1 <= Len(Explanation)
                      /\ SubSeq(Explanation, i, i + Len(mark) - 1) = mark}
    IN  IF at = {} THEN 0 ELSE CHOOSE i \in at : \A j \in at : i <= j

\* the number of blank lines in the explanation
BlankLines ==
    Cardinality({i \in 1..(Len(Explanation) - 1) : SubSeq(Explanation, i, i + 1) = "\n\n"})

\* the news generator raises: the analysis has sentiments and no
\* average_sentiment
NewsSummaryRaises ==
    /\ explanation.news # None
    /\ "sentiments" \in DOMAIN explanation.news
    /\ explanation.news["sentiments"] # <<>>
    /\ ~("average_sentiment" \in DOMAIN explanation.news)

\* generator g has a paragraph to give
Gives(g) ==
    IF g = 1 THEN HasTodayRows
    ELSE IF g = 2 THEN ~NewsSummaryRaises
    ELSE IF g = 3 THEN IndexChanges # {}
    ELSE IF g = 4 THEN /\ "sector_context" \in DOMAIN security_data
                       /\ "info" \in DOMAIN security_data
                       /\ "sector" \in DOMAIN security_data["info"]
                       /\ security_data["info"]["sector"]
                              \in DOMAIN security_data["sector_context"]
    ELSE IF g = 5 THEN HasSignals
    ELSE HasTodayRows /\ explanation.news # None

\* C26: the explanation holds the paragraph of each of the six generators
\* that has one to give, and of no other: a generator that raises or returns
\* nothing leaves no paragraph and the later ones still give theirs.  The
\* paragraphs stand in the order price, news, market, sector, technical, key
\* takeaway, the first at the start and each next one after a blank line.
C26_SixPartsInOrder ==
    (explanation.called /\ ~Falsy(security_data)) =>
        LET place == <<Place(1), Place(2), Place(3), Place(4), Place(5), Place(6)>>
            paragraphs == Cardinality({g \in 1..6 : place[g] > 0})
        IN  /\ \A g \in 1..6 : place[g] > 0 <=> Gives(g)
            /\ \A g, h \in 1..6 : (g < h /\ place[g] > 0 /\ place[h] > 0) => place[g] < place[h]
            /\ \A g \in 2..6 :
                  (place[g] > 0 /\ \E h \in 1..(g - 1) : place[h] > 0)
                     => SubSeq(Explanation, place[g] - 2, place[g] - 1) = "\n\n"
            /\ IF paragraphs = 0 THEN Explanation = ""
               ELSE BlankLines = paragraphs - 1

\* the news generator raised, and the explanation has the price paragraph
\* before it and the market, sector and key takeaway paragraphs after it
C26_Witness ==
    /\ explanation.called
    /\ NewsSummaryRaises
    /\ Place(1) > 0
    /\ Place(2) = 0
    /\ Place(3) > Place(1)
    /\ Place(4) > Place(3)
    /\ Place(6) > Place(4)

\* C30: a finished generate_explanation has the key takeaway paragraph only
\* for security data with a today series that has rows.  Without the series,
\* or with an empty one, no takeaway is in the explanation whatever the news
\* sentiment, the market trend and the sector trend are, and the call still
\* returns its string with the paragraph of every other generator that has
\* one to give.
C30_TakeawayNeedsTodayRows ==
    (explanation.called /\ ~Falsy(security_data)) =>
        LET takeaway == Place(6)
        IN  /\ ~IsRaised(explanation.result)
            /\ takeaway > 0 => HasTodayRows
            /\ ~HasTodayRows =>
                  /\ takeaway = 0
                  /\ \A g \in 2..5 : Gives(g) => Place(g) > 0

\* the today series is empty, the news is strong enough for the comparison
\* of line 1009 to meet the undefined price change, and the explanation has
\* the news and the market paragraphs and no takeaway
C30_Witness ==
    /\ explanation.called
    /\ explanation.news # None
    /\ "data" \in DOMAIN security_data
    /\ "today" \in DOMAIN security_data["data"]
    /\ security_data["data"]["today"] = <<>>
    /\ Gt(AbsNum(Sentiment), KeyFactorAbove)
    /\ Place(2) > 0
    /\ Place(3) > 0
    /\ Place(6) = 0

(***************************************************************************)
(* Isolation of the indicator blocks.                                      *)
(***************************************************************************)
\* the keys that the block of an indicator family assigns
FamilyKeys(family) ==
    IF family = "rsi" THEN {"rsi", "rsi_signal"}
    ELSE IF family = "macd" THEN {"macd_signal"}
    ELSE {family}

\* what the block of a family assigns when nothing fails, for either
\* outcome of the MACD comparison
Unhindered(family) ==
    {[key \in FamilyKeys(family) |->
         _get_technical_analysis(price_data, {}, macd_above)[key]] :
             macd_above \in BOOLEAN}

\* the signal that the bundle holds for a family that is present
FamilySignal(b, family) ==
    IF family = "sma" THEN b["sma"].sma5_signal
    ELSE IF family = "bollinger" THEN b["bollinger"].signal
    ELSE b[family \o "_signal"]

\* C19: on a week series of at least 10 rows, an indicator block that fails
\* leaves its family out of the bundle and nothing else: every family whose
\* block did not fail is in the bundle with the values it has when no block
\* fails, and signals holds one entry per family, `neutral` for each absent
\* family and the family's own signal for each present one.
C19_IndicatorsIsolated ==
    (analysis.called /\ WeekLen >= MinRows) =>
        LET b == analysis.bundle
        IN  /\ "signals" \in DOMAIN b
            /\ DOMAIN b["signals"] = Indicators
            /\ \A family \in Indicators :
                   IF family \in raises
                   THEN /\ FamilyKeys(family) \cap DOMAIN b = {}
                        /\ b["signals"][family] = "neutral"
                   ELSE /\ FamilyKeys(family) \subseteq DOMAIN b
                        /\ [key \in FamilyKeys(family) |-> b[key]] \in Unhindered(family)
                        /\ b["signals"][family] = FamilySignal(b, family)

\* the RSI block failed on a series long enough for every indicator: the
\* other three families are in the bundle, the Bollinger one with a signal
\* that is not the default
C19_Witness ==
    /\ analysis.called
    /\ WeekLen >= BollingerWindow
    /\ raises = {"rsi"}
    /\ {"sma", "macd_signal", "bollinger"} \subseteq DOMAIN analysis.bundle
    /\ "rsi" \notin DOMAIN analysis.bundle
    /\ analysis.bundle["signals"].rsi = "neutral"
    /\ analysis.bundle["signals"].bollinger = "sell"

(***************************************************************************)
(* Interleaved calls of analyze_security.                                  *)
(***************************************************************************)
\* the callers whose last call of analyze_security has returned
Returned == {c \in Callers : pc[c] = "idle" /\ call[c].ticker # ""}

\* caller c starts a call in this step
Starts(c) == pc[c] = "idle" /\ call'[c] # call[c]

\* caller c returns from the upstream path in this step
Finishes(c) == pc[c] = "fetch" /\ pc'[c] = "idle"

\* C18: a call that finds no fresh entry under its key goes upstream, whether
\* or not another call for the same key is already in flight; and a call that
\* went upstream and succeeded has fetched and writes the entry of its key,
\* replacing what an earlier call wrote there.
C18_NoRequestCoalescing ==
    [][\A c \in Callers :
          /\ (/\ Starts(c)
              /\ _get_from_cache(data_cache, call'[c].cache_key, now) = None)
                 => pc'[c] = "fetch"
          /\ (Finishes(c) /\ ret'[c].tag = "result")
                 => /\ call'[c].fetched
                    /\ ret'[c].fetched_at = now
                    /\ data_cache'[call[c].cache_key] =
                           [cache_time |-> DateTime(now), cached_data |-> ret'[c]]]_vars

\* two calls for the same ticker both missed and both went upstream; the
\* second to finish has replaced the entry of the first
C18_Witness ==
    /\ Returned = Callers
    /\ call[1].cache_key = call[2].cache_key
    /\ call[1].fetched /\ call[2].fetched
    /\ call[1].started = call[2].started
    /\ ret[1].tag = "result" /\ ret[2].tag = "result"
    /\ ret[1].fetched_at < ret[2].fetched_at
    /\ data_cache[call[1].cache_key].cached_data = ret[2]

(***************************************************************************)
(* Failed calls of analyze_security.                                       *)
(***************************************************************************)
\* the entries of the cache under security keys
SecurityEntries(cache) ==
    {<<k, cache[k]>> : k \in {x \in DOMAIN cache : x.kind = "security"}}

\* C27: a call of analyze_security that returns the empty structure leaves
\* the entries under security keys as they were, and no entry of the cache
\* ever holds an empty structure; so a call that starts after a call for the
\* same ticker in the same hour returned the empty structure, with no call
\* for that ticker and hour having succeeded, misses and goes upstream.
C27_FailuresNotCached ==
    [][/\ \A k \in DOMAIN data_cache' : data_cache'[k].cached_data.tag # "empty"
       /\ \A c \in Callers :
             /\ (Finishes(c) /\ ret'[c].tag = "empty")
                    => SecurityEntries(data_cache') = SecurityEntries(data_cache)
             /\ (Starts(c) /\ call'[c].retry /\ call'[c].prior = {})
                    => /\ call'[c].cache_key \notin DOMAIN data_cache
                       /\ pc'[c] = "fetch"]_vars

\* a call that followed a failed call for its ticker in the same hour, at a
\* later time, has gone upstream and returned a result
C27_Witness ==
    \E c \in Returned :
        /\ call[c].retry
        /\ call[c].started > 0
        /\ call[c].fetched
        /\ ret[c].tag = "result"

(***************************************************************************)
(* Hour buckets and the time-to-live.                                      *)
(***************************************************************************)
\* the symbol and kind of every key that analyze_security, _get_market_context
\* and _get_sector_context build
WrapperKeys ==
    {<<ticker, "security">> : ticker \in Tickers}
        \cup {<<market_indicators[i], "market">> : i \in DOMAIN market_indicators}
        \cup {<<sector_etfs[i], "sector">> : i \in DOMAIN sector_etfs}

\* C28: at every time, the lookup of a key that a wrapper builds at that time
\* returns the stored data if the cache has an entry under that very key, and
\* None if it has not: an entry under an equal key has an age below the
\* time-to-live, and an entry of the same symbol under the key of an earlier
\* hour is not found, however young it is.
C28_HitIffSameHourKey ==
    \A w \in WrapperKeys :
        LET cache_key == CacheKey(w[1], w[2], now)
            found == _get_from_cache(data_cache, cache_key, now)
        IN  IF cache_key \in DOMAIN data_cache
            THEN /\ now - data_cache[cache_key].cache_time.t < cache_expiry
                 /\ found = data_cache[cache_key].cached_data
            ELSE found = None

\* a call started in a new hour, less than an hour after the result of its
\* ticker was stored, and went upstream
C28_Witness ==
    \E c \in Callers, k \in DOMAIN data_cache :
        /\ call[c].fetched
        /\ k.kind = "security"
        /\ k.sym = call[c].ticker
        /\ k.bucket < call[c].cache_key.bucket
        /\ data_cache[k].cache_time.t < call[c].started
        /\ call[c].started - data_cache[k].cache_time.t < cache_expiry

(***************************************************************************)
(* The cache under string timestamps.                                      *)
(***************************************************************************)
\* the last lookup found an entry whose timestamp is a string that does not parse
LastGetCorrupt == \E e \in lastGet.entry : e.cache_time = CorruptString

\* the step is a lookup by _get_from_cache
IsGet == lastGet' # lastGet

\* C17: a lookup of an entry whose timestamp is an unparseable string returns
\* None (a miss, and no exception); a lookup never changes the mapping; and
\* no step of any operation removes a key from the mapping.
C17_CorruptIsMissAndNoEviction ==
    /\ [](LastGetCorrupt => lastGet.val = None)
    /\ [][/\ IsGet => data_cache' = data_cache
          /\ DOMAIN data_cache \subseteq DOMAIN data_cache']_vars

\* a lookup has missed on a corrupt entry, which is still in the mapping
\* beside a key stored later
C17_Witness ==
    /\ LastGetCorrupt
    /\ lastGet.val = None
    /\ lastGet.key \in DOMAIN data_cache
    /\ data_cache[lastGet.key].cache_time = CorruptString
    /\ Cardinality(DOMAIN data_cache) > 1

(***************************************************************************)
(* The public entry points: what their finished calls returned.            *)
(***************************************************************************)
AnalysisKeys ==
    {"sentiments", "topics", "keywords", "average_sentiment", "sentiment_distribution",
     "sentiment_label", "news_items"}

\* C16: no call of analyze_security, analyze_news_impact,
\* compute_price_news_correlation or generate_explanation ends in an exception,
\* whatever fails inside or upstream: analyze_security returns the result or
\* the empty structure with its error and success = False, analyze_news_impact
\* returns an analysis (the empty one after a failure),
\* compute_price_news_correlation returns its four keys, and
\* generate_explanation returns a string.
C16_EntryPointsAbsorbFailures ==
    /\ \A c \in Returned :
          /\ ~IsRaised(ret[c])
          /\ ret[c] # None
          /\ ret[c].tag \in {"result", "empty"}
          /\ ret[c].tag = "empty" => (Len(ret[c].error) > 0 /\ ret[c].success = FALSE)
          /\ ret[c].ticker = call[c].ticker
    /\ news_analysis.called =>
          /\ ~IsRaised(NewsResult)
          /\ DOMAIN NewsResult = AnalysisKeys
          /\ (news_items # None /\ \E i \in 1..Len(news_items.list) :
                                       BadEntities(news_items.list[i]))
                 => NewsResult = _get_empty_news_analysis
    /\ correlation.called =>
          /\ ~IsRaised(CorrResult)
          /\ DOMAIN CorrResult = FourKeys
    /\ explanation.called =>
          /\ ~IsRaised(explanation.result)
          /\ DOMAIN explanation.result = {"str"}

\* each entry point has returned from a call in which something failed: an
\* upstream fetch of analyze_security, the entities of a news item, the index
\* of the price rows, and the key takeaway on a missing analysis
C16_Witness ==
    /\ \E c \in Returned : call[c].fetched /\ ret[c].tag = "empty"
    /\ news_analysis.called
    /\ BadEntities(news_items.list[1])
    /\ NewsResult = _get_empty_news_analysis
    /\ correlation.called
    /\ CaughtAll
    /\ explanation.called
    /\ explanation.news = None
    /\ Len(explanation.result.str) > 0

\* C10: with security data present, a call on the empty-news-analysis structure
\* returns error = "No news items available", days_analyzed = 0 and data = [].
C10_EmptyAnalysisRoundTrip ==
    (/\ correlation.called
     /\ correlation.news = _get_empty_news_analysis
     /\ SecurityDataPresent)
        => /\ CorrResult.error = Str("No news items available")
           /\ CorrResult.days_analyzed = 0
           /\ CorrResult.data = <<>>

====
